---------------------------- MODULE Spec2Model ----------------------------
(* nano-vllm: paged KV block pool (BlockManager), continuous-batching      *)
(* Scheduler and BatchedRunner::run_all, modelled as state machines.       *)
EXTENDS Integers, Sequences, FiniteSets, TLC

\* ------------------------------------------------------------------ bounds
NumRequests == 2        \* requests handed to run_all (ids 0..NumRequests-1)
MaxPrompt == 3          \* longest tokenized prompt
MaxTok == 2             \* largest sampling_params.max_tokens
MaxBatchSize == 2       \* largest SchedulerConfig::max_batch_size
MaxTokensPerBatch == 3  \* largest SchedulerConfig::max_tokens_per_batch
NLayers == 2            \* Config::n_layers
BlockSize == 2          \* Config::block_size
MaxSeqLen == 3          \* Config::max_seq_len
PoolBlocks == 3         \* num_blocks of the pool driven through its API
MaxOwnerLen == 2        \* cap on an owner list in the pool API specification
MaxAllocTokens == 5     \* largest num_tokens passed to allocate_for_request
MaxAdds == 2            \* cap on add_request calls in the scheduler API specification

\* ------------------------------------------------------- program constants
EOS == 2                \* end-of-sequence token id
BOS == 1                \* begin-of-sequence token id
OtherToken == 7         \* some token id different from EOS
NoToken == 0 - 1        \* Request::last_token initial value

RequestIds == 0 .. (NumRequests - 1)
Layers == 1 .. NLayers
Tokens == {EOS, OtherToken}

VARIABLES
    block_manager,      \* BlockManager: num_blocks, free_blocks, num_free_blocks, request_blocks
    ret,                \* result of the last BlockManager call
    requests,           \* std::vector<Request>, indexed by request id
    pending_queue,      \* Scheduler::pending_queue_
    running_requests,   \* Scheduler::running_requests_
    config,             \* SchedulerConfig
    batch,              \* ScheduledBatch of the current iteration
    pc,                 \* position of run_all
    bi,                 \* index i of the batch member being executed
    bt,                 \* index t inside the prefill chunk loop
    add_order,          \* history: order of add_request calls
    admit_order,        \* history: order of PENDING -> PREFILLING transitions
    oom_request,        \* history: request whose forward step threw, or NoRequest
    model,              \* LlamaModel: KV caches, block tables, position of a generation
    queue,              \* AsyncRequestQueue and the threads that use it
    threads             \* threads calling the BlockManager concurrently

vars == <<block_manager, ret, requests, pending_queue, running_requests, config,
          batch, pc, bi, bt, add_order, admit_order, oom_request, model, queue, threads>>

NoRequest == 0 - 1

\* values of the variables a specification does not use
NoModel == [m \in {} |-> 0]

NoQueue == [pending_requests |-> <<>>]

NoThreads == [t \in {} |-> 0]

\* ------------------------------------------------------------ small helpers
Min(a, b) == IF a < b THEN a ELSE b

CeilDiv(a, b) == (a + b - 1) \div b

MapPut(f, k, v) == [x \in (DOMAIN f) \cup {k} |-> IF x = k THEN v ELSE f[x]]

MapErase(f, k) == [x \in (DOMAIN f) \ {k} |-> f[x]]

MapGet(f, k) == IF k \in DOMAIN f THEN f[k] ELSE <<>>

EmptyMap == [x \in {} |-> <<>>]

RECURSIVE SumLens(_, _)
SumLens(f, S) ==
    IF S = {} THEN 0
    ELSE LET k == CHOOSE x \in S : TRUE
         IN Len(f[k]) + SumLens(f, S \ {k})

Range(s) == {s[i] : i \in 1 .. Len(s)}

\* ------------------------------------------------------------ BlockManager
\* BlockManager(num_blocks, block_size): every block free, empty owner map.
NewBlockManager(n) ==
    [num_blocks |-> n,
     free_blocks |-> [b \in 0 .. (n - 1) |-> TRUE],
     num_free_blocks |-> n,
     request_blocks |-> EmptyMap,
     mutex |-> "free"]

\* allocate_block_internal that hands out a block without setting its bit
allocate_block_internal_no_mark(bm) ==
    IF bm.num_free_blocks = 0 THEN [bm |-> bm, ret |-> 0 - 1]
    ELSE LET freeIds == {b \in DOMAIN bm.free_blocks : bm.free_blocks[b]}
         IN IF freeIds = {} THEN [bm |-> bm, ret |-> 0 - 1]
            ELSE LET i == CHOOSE b \in freeIds : \A c \in freeIds : b <= c
                 IN [bm |-> [bm EXCEPT !.num_free_blocks = @ - 1], ret |-> i]

\* allocate_block_internal scanning from the highest index
allocate_block_internal_highest(bm) ==
    IF bm.num_free_blocks = 0 THEN [bm |-> bm, ret |-> 0 - 1]
    ELSE LET freeIds == {b \in DOMAIN bm.free_blocks : bm.free_blocks[b]}
         IN IF freeIds = {} THEN [bm |-> bm, ret |-> 0 - 1]
            ELSE LET i == CHOOSE b \in freeIds : \A c \in freeIds : b >= c
                 IN [bm |-> [bm EXCEPT !.free_blocks[i] = FALSE,
                                       !.num_free_blocks = @ - 1],
                     ret |-> i]

\* allocate_block_internal: lowest-index free block, or -1.
allocate_block_internal(bm) ==
    IF bm.num_free_blocks = 0 THEN [bm |-> bm, ret |-> 0 - 1]
    ELSE LET freeIds == {b \in DOMAIN bm.free_blocks : bm.free_blocks[b]}
         IN IF freeIds = {} THEN [bm |-> bm, ret |-> 0 - 1]
            ELSE LET i == CHOOSE b \in freeIds : \A c \in freeIds : b <= c
                 IN [bm |-> [bm EXCEPT !.free_blocks[i] = FALSE,
                                       !.num_free_blocks = @ - 1],
                     ret |-> i]

\* free_block_internal counting a block that is already free once more
free_block_internal_count_always(bm, block_id) ==
    IF block_id < 0 \/ block_id >= bm.num_blocks THEN bm
    ELSE [bm EXCEPT !.free_blocks[block_id] = TRUE, !.num_free_blocks = @ + 1]

\* free_block_internal: out-of-range id and already-free block are ignored.
free_block_internal(bm, block_id) ==
    IF block_id < 0 \/ block_id >= bm.num_blocks THEN bm
    ELSE IF ~bm.free_blocks[block_id]
         THEN [bm EXCEPT !.free_blocks[block_id] = TRUE, !.num_free_blocks = @ + 1]
         ELSE bm

RECURSIVE FreeAll(_, _)
FreeAll(bm, blocks) ==
    IF blocks = <<>> THEN bm
    ELSE FreeAll(free_block_internal(bm, Head(blocks)), Tail(blocks))

\* the allocation loop of allocate_sequence_internal, with its rollback
RECURSIVE AllocLoop(_, _, _)
AllocLoop(bm, needed, allocated) ==
    IF Len(allocated) >= needed THEN [bm |-> bm, ret |-> allocated]
    ELSE LET r == allocate_block_internal(bm)
         IN IF r.ret = 0 - 1
            THEN [bm |-> FreeAll(bm, allocated), ret |-> <<>>]
            ELSE AllocLoop(r.bm, needed, Append(allocated, r.ret))

\* allocate_sequence_internal rounding the block count down
allocate_sequence_internal_floor(bm, num_tokens) ==
    LET num_blocks_needed == num_tokens \div BlockSize
    IN IF num_blocks_needed > bm.num_free_blocks THEN [bm |-> bm, ret |-> <<>>]
       ELSE AllocLoop(bm, num_blocks_needed, <<>>)

allocate_sequence_internal(bm, num_tokens) ==
    LET num_blocks_needed == (num_tokens + BlockSize - 1) \div BlockSize
    IN IF num_blocks_needed > bm.num_free_blocks THEN [bm |-> bm, ret |-> <<>>]
       ELSE AllocLoop(bm, num_blocks_needed, <<>>)

allocate_for_request(bm, request_id, num_tokens) ==
    LET r == allocate_sequence_internal(bm, num_tokens)
    IN IF r.ret # <<>>
       THEN [bm |-> [r.bm EXCEPT !.request_blocks =
                        MapPut(@, request_id, MapGet(@, request_id) \o r.ret)],
             ret |-> r.ret]
       ELSE r

allocate_block_for_request(bm, request_id) ==
    LET r == allocate_block_internal(bm)
    IN IF r.ret >= 0
       THEN [bm |-> [r.bm EXCEPT !.request_blocks =
                        MapPut(@, request_id, Append(MapGet(@, request_id), r.ret))],
             ret |-> r.ret]
       ELSE r

free_request(bm, request_id) ==
    IF request_id \notin DOMAIN bm.request_blocks THEN bm
    ELSE LET freed == FreeAll(bm, bm.request_blocks[request_id])
         IN [freed EXCEPT !.request_blocks = MapErase(@, request_id)]

allocate_block_safe(bm) == allocate_block_internal(bm)

free_block_safe(bm, block_id) == free_block_internal(bm, block_id)

\* free_block_safe as its caller sees it: it returns normally for every id
free_block_safe_outcome(bm, block_id) ==
    [bm |-> free_block_safe(bm, block_id), ret |-> "ok"]

\* BlockManager::get_request_block_count
get_request_block_count(bm, request_id) ==
    IF request_id \notin DOMAIN bm.request_blocks THEN 0
    ELSE Len(bm.request_blocks[request_id])

\* allocate_block (public, unlocked): same search as the internal one.
allocate_block(bm) ==
    IF bm.num_free_blocks = 0 THEN [bm |-> bm, ret |-> 0 - 1]
    ELSE LET freeIds == {b \in DOMAIN bm.free_blocks : bm.free_blocks[b]}
         IN IF freeIds = {} THEN [bm |-> bm, ret |-> 0 - 1]
            ELSE LET i == CHOOSE b \in freeIds : \A c \in freeIds : b <= c
                 IN [bm |-> [bm EXCEPT !.free_blocks[i] = FALSE,
                                       !.num_free_blocks = @ - 1],
                     ret |-> i]

\* free_block (public, unlocked): throws on an invalid id, warns on a free block.
free_block(bm, block_id) ==
    IF block_id < 0 \/ block_id >= bm.num_blocks THEN [bm |-> bm, ret |-> "throw"]
    ELSE IF bm.free_blocks[block_id] THEN [bm |-> bm, ret |-> "already_free"]
    ELSE [bm |-> [bm EXCEPT !.free_blocks[block_id] = TRUE, !.num_free_blocks = @ + 1],
          ret |-> "ok"]

\* free_sequence (public, unlocked): free_block on every id; the exception of an
\* invalid id ends the loop with the earlier blocks freed
RECURSIVE free_sequence(_, _)
free_sequence(bm, block_ids) ==
    IF block_ids = <<>> THEN [bm |-> bm, status |-> "ok"]
    ELSE LET r == free_block(bm, Head(block_ids))
         IN IF r.ret = "throw" THEN [bm |-> r.bm, status |-> "throw"]
            ELSE free_sequence(r.bm, Tail(block_ids))

\* the allocation loop of the public allocate_sequence, with its rollback
RECURSIVE AllocSequenceLoop(_, _, _)
AllocSequenceLoop(bm, needed, allocated) ==
    IF Len(allocated) >= needed THEN [bm |-> bm, ret |-> allocated, status |-> "ok"]
    ELSE LET r == allocate_block(bm)
         IN IF r.ret = 0 - 1
            THEN [bm |-> free_sequence(bm, allocated).bm, ret |-> <<>>, status |-> "throw"]
            ELSE AllocSequenceLoop(r.bm, needed, Append(allocated, r.ret))

\* allocate_sequence (public, unlocked): throws when the pool is too small
allocate_sequence(bm, num_tokens) ==
    LET num_blocks_needed == (num_tokens + BlockSize - 1) \div BlockSize
    IN IF num_blocks_needed > bm.num_free_blocks
       THEN [bm |-> bm, ret |-> <<>>, status |-> "throw"]
       ELSE AllocSequenceLoop(bm, num_blocks_needed, <<>>)

\* ------------------------------------------------------------------ Request
\* tokenizer_.encode(prompt, bos = true, eos = false): BOS, then the prompt's tokens
PromptTokens(len) == [i \in 1 .. len |-> IF i = 1 THEN BOS ELSE OtherToken + i]

\* Request(req_id, prompt, params), then prompt_tokens set by run_all
NewRequest(id, prompt_len, max_tokens) ==
    [id |-> id,
     prompt_tokens |-> PromptTokens(prompt_len),
     max_tokens |-> max_tokens,
     status |-> "PENDING",
     current_pos |-> 0,
     num_computed_tokens |-> 0,
     prefill_cursor |-> 0,
     last_token |-> NoToken,
     finished_reason |-> "None",
     generated_tokens |-> <<>>,
     block_tables |-> <<>>]

num_prompt_tokens(req) == Len(req.prompt_tokens)

num_generated_tokens(req) == Len(req.generated_tokens)

is_finished(req) == req.status = "FINISHED" \/ req.status = "FAILED"

can_generate_more(req) == num_generated_tokens(req) < req.max_tokens

is_prefill(req) == req.prefill_cursor < num_prompt_tokens(req)

remaining_prompt(req) == num_prompt_tokens(req) - req.prefill_cursor

EmptyBatch ==
    [requests |-> <<>>, scheduled_tokens |-> <<>>, is_prefill |-> FALSE,
     total_scheduled_tokens |-> 0]

\* ScheduledBatch::add
BatchAdd(b, r, tokens) ==
    [b EXCEPT !.requests = Append(@, r),
              !.scheduled_tokens = Append(@, tokens),
              !.total_scheduled_tokens = @ + tokens]

RetNone == [kind |-> "none", val |-> 0, blocks |-> <<>>]

RetInt(i) == [kind |-> "int", val |-> i, blocks |-> <<>>]

RetBlocks(b) == [kind |-> "blocks", val |-> Len(b), blocks |-> b]

RetVoid == [kind |-> "void", val |-> 0, blocks |-> <<>>]

RetStatus(s) == [kind |-> s, val |-> 0, blocks |-> <<>>]

\* ---------------------------------------------------------------- Scheduler
\* add_request pushing at the front of the queue
add_request_front(reqs, pending, r) ==
    [requests |-> [reqs EXCEPT ![r].status = "PENDING"],
     pending_queue |-> <<r>> \o pending]

\* Scheduler::add_request
add_request(reqs, pending, r) ==
    [requests |-> [reqs EXCEPT ![r].status = "PENDING"],
     pending_queue |-> Append(pending, r)]

\* first pass of Scheduler::schedule: running requests that are DECODING, 1 token each
RECURSIVE DecodePass(_, _, _, _, _)
DecodePass(cfg, reqs, running, i, b) ==
    IF i > Len(running) THEN b
    ELSE IF reqs[running[i]].status = "DECODING"
         THEN IF Len(b.requests) >= cfg.max_batch_size THEN b
              ELSE IF b.total_scheduled_tokens + 1 > cfg.max_tokens_per_batch THEN b
              ELSE DecodePass(cfg, reqs, running, i + 1, BatchAdd(b, running[i], 1))
         ELSE DecodePass(cfg, reqs, running, i + 1, b)

\* the prefill pass without the token budget: the whole remaining prompt is scheduled
RECURSIVE PrefillPass_ignore_budget(_, _)
PrefillPass_ignore_budget(cfg, st) ==
    IF st.pending_queue = <<>> THEN st
    ELSE IF Len(st.batch.requests) >= cfg.max_batch_size THEN st
    ELSE LET req == Head(st.pending_queue)
             chunk_size == remaining_prompt(st.requests[req])
         IN IF chunk_size <= 0 THEN st
            ELSE PrefillPass_ignore_budget(cfg,
                    [batch |-> BatchAdd(st.batch, req, chunk_size),
                     requests |-> [st.requests EXCEPT ![req].status = "PREFILLING"],
                     pending_queue |-> Tail(st.pending_queue),
                     running_requests |-> Append(st.running_requests, req),
                     admitted |-> Append(st.admitted, req)])

\* the second pass admitting the head of the pending queue without popping it
RECURSIVE PrefillPass_no_pop(_, _)
PrefillPass_no_pop(cfg, st) ==
    IF st.pending_queue = <<>> THEN st
    ELSE IF Len(st.batch.requests) >= cfg.max_batch_size THEN st
    ELSE LET req == Head(st.pending_queue)
             remaining == remaining_prompt(st.requests[req])
             budget_left == cfg.max_tokens_per_batch - st.batch.total_scheduled_tokens
             chunk_size == Min(remaining, budget_left)
         IN IF chunk_size <= 0 THEN st
            ELSE PrefillPass_no_pop(cfg,
                    [batch |-> BatchAdd(st.batch, req, chunk_size),
                     requests |-> [st.requests EXCEPT ![req].status = "PREFILLING"],
                     pending_queue |-> st.pending_queue,
                     running_requests |-> Append(st.running_requests, req),
                     admitted |-> Append(st.admitted, req)])

\* the second pass handing every admitted request the whole budget that is left
RECURSIVE PrefillPass_chunk_is_budget(_, _)
PrefillPass_chunk_is_budget(cfg, st) ==
    IF st.pending_queue = <<>> THEN st
    ELSE IF Len(st.batch.requests) >= cfg.max_batch_size THEN st
    ELSE LET req == Head(st.pending_queue)
             budget_left == cfg.max_tokens_per_batch - st.batch.total_scheduled_tokens
             chunk_size == budget_left
         IN IF chunk_size <= 0 THEN st
            ELSE PrefillPass_chunk_is_budget(cfg,
                    [batch |-> BatchAdd(st.batch, req, chunk_size),
                     requests |-> [st.requests EXCEPT ![req].status = "PREFILLING"],
                     pending_queue |-> Tail(st.pending_queue),
                     running_requests |-> Append(st.running_requests, req),
                     admitted |-> Append(st.admitted, req)])

\* second pass of Scheduler::schedule: chunked admission from the pending queue
RECURSIVE PrefillPass(_, _)
PrefillPass(cfg, st) ==
    IF st.pending_queue = <<>> THEN st
    ELSE IF Len(st.batch.requests) >= cfg.max_batch_size THEN st
    ELSE LET req == Head(st.pending_queue)
             remaining == remaining_prompt(st.requests[req])
             budget_left == cfg.max_tokens_per_batch - st.batch.total_scheduled_tokens
             chunk_size == Min(remaining, budget_left)
         IN IF chunk_size <= 0 THEN st
            ELSE PrefillPass(cfg,
                    [batch |-> BatchAdd(st.batch, req, chunk_size),
                     requests |-> [st.requests EXCEPT ![req].status = "PREFILLING"],
                     pending_queue |-> Tail(st.pending_queue),
                     running_requests |-> Append(st.running_requests, req),
                     admitted |-> Append(st.admitted, req)])

\* schedule() trying the pending queue before the decoding requests
schedule_prefill_first(cfg, reqs, pending, running) ==
    LET st0 == [batch |-> EmptyBatch, requests |-> reqs, pending_queue |-> pending,
                running_requests |-> running, admitted |-> <<>>]
        st == PrefillPass(cfg, st0)
        dec == DecodePass(cfg, reqs, running, 1, EmptyBatch)
    IN IF st.batch.requests # <<>>
       THEN [st EXCEPT !.batch.is_prefill = TRUE]
       ELSE [st0 EXCEPT !.batch = [dec EXCEPT !.is_prefill = FALSE]]

\* Scheduler::schedule
schedule(cfg, reqs, pending, running) ==
    LET dec == DecodePass(cfg, reqs, running, 1, EmptyBatch)
        st0 == [batch |-> EmptyBatch, requests |-> reqs, pending_queue |-> pending,
                running_requests |-> running, admitted |-> <<>>]
    IN IF dec.requests # <<>>
       THEN [st0 EXCEPT !.batch = [dec EXCEPT !.is_prefill = FALSE]]
       ELSE LET st == PrefillPass(cfg, st0)
            IN IF st.batch.requests # <<>>
               THEN [st EXCEPT !.batch.is_prefill = TRUE]
               ELSE st

RemoveAll(seq, r) == SelectSeq(seq, LAMBDA x : x # r)

\* Scheduler::finish_request
Scheduler_finish_request(reqs, running, r) ==
    [requests |-> [reqs EXCEPT ![r].status = "FINISHED"],
     running_requests |-> RemoveAll(running, r)]

\* Scheduler::update_after_prefill
update_after_prefill(reqs, r) == [reqs EXCEPT ![r].status = "DECODING"]

\* r is in Scheduler::running_requests_
InRunning(r) == \E i \in 1 .. Len(running_requests) : running_requests[i] = r

has_pending == pending_queue # <<>>

has_running == running_requests # <<>>

has_work == has_pending \/ has_running

\* a cache row that no step has written
NoRow == <<>>

\* row index into RunState::paged_key_cache: [n_layers, num_blocks, block_size]
PagedIndex(nb, i, physical_block, block_offset) ==
    (i - 1) * nb * BlockSize + physical_block * BlockSize + block_offset

\* paged_attention: the rows of positions 0 .. num_tokens-1, through the block table
PagedHistory(cache, table, nb, i, num_tokens) ==
    [t1 \in 1 .. num_tokens |->
        cache[PagedIndex(nb, i, table[((t1 - 1) \div BlockSize) + 1],
                         (t1 - 1) % BlockSize)]]

\* the K/V row request id computes at position pos
RequestRow(id, pos) == <<id, pos>>

\* the KV write of forward_with_request landing in the first block of the table
RECURSIVE KVLayers_first_block(_, _, _, _, _, _, _, _)
KVLayers_first_block(i, done, cache, tables, nb, id, pos, reads) ==
    IF i > done THEN [cache |-> cache, reads |-> reads]
    ELSE LET physical_block == tables[i][1]
             c1 == [cache EXCEPT ![PagedIndex(nb, i, physical_block, pos % BlockSize)] =
                                    RequestRow(id, pos)]
             h == PagedHistory(c1, tables[i], nb, i, pos + 1)
         IN KVLayers_first_block(i + 1, done, c1, tables, nb, id, pos, Append(reads, h))

\* forward_with_request, layers 1 .. done: the KV write through the request's
\* block table, then attention_with_request over positions 0 .. pos
RECURSIVE KVLayers(_, _, _, _, _, _, _, _)
KVLayers(i, done, cache, tables, nb, id, pos, reads) ==
    IF i > done THEN [cache |-> cache, reads |-> reads]
    ELSE LET physical_block == tables[i][(pos \div BlockSize) + 1]
             c1 == [cache EXCEPT ![PagedIndex(nb, i, physical_block, pos % BlockSize)] =
                                    RequestRow(id, pos)]
             h == PagedHistory(c1, tables[i], nb, i, pos + 1)
         IN KVLayers(i + 1, done, c1, tables, nb, id, pos, Append(reads, h))

\* RunState::paged_key_cache with the record of the last step and of every write
NewPagedState(nb) ==
    [cache |-> [k \in 0 .. (NLayers * nb * BlockSize - 1) |-> NoRow],
     last |-> [request |-> NoRequest, pos |-> 0, layers |-> 0, reads |-> <<>>],
     writes |-> [r \in RequestIds |-> [l \in Layers |-> <<>>]]]

\* the cache and the records after the step f of request id at position pos
AfterStep(st, f, nb, id, pos) ==
    LET kv == KVLayers(1, f.layers, st.cache, f.block_tables, nb, id, pos, <<>>)
    IN [cache |-> kv.cache,
        last |-> [request |-> id, pos |-> pos, layers |-> f.layers, reads |-> kv.reads],
        writes |-> [st.writes EXCEPT ![id] =
                      [l \in Layers |-> IF l <= f.layers THEN Append(@[l], pos) ELSE @[l]]]]

\* ------------------------------------------------------------- LlamaModel
\* the per-layer loop allocating a block at every position
RECURSIVE ForwardLayers_alloc_every_step(_, _, _, _, _)
ForwardLayers_alloc_every_step(i, bm, tables, id, pos) ==
    IF i > NLayers THEN [status |-> "ok", bm |-> bm, block_tables |-> tables, layers |-> NLayers]
    ELSE LET a == allocate_block_for_request(bm, id)
         IN IF a.ret = 0 - 1
            THEN [status |-> "oom", bm |-> a.bm, block_tables |-> tables, layers |-> i - 1]
            ELSE ForwardLayers_alloc_every_step(i + 1, a.bm,
                    [tables EXCEPT ![i] = Append(@, a.ret)], id, pos)

\* the per-layer loop testing the block boundary one position early
RECURSIVE ForwardLayers_boundary_off_by_one(_, _, _, _, _)
ForwardLayers_boundary_off_by_one(i, bm, tables, id, pos) ==
    IF i > NLayers THEN [status |-> "ok", bm |-> bm, block_tables |-> tables, layers |-> NLayers]
    ELSE LET grow == pos = 0 \/ (pos + 1) % BlockSize = 0
             a == IF grow THEN allocate_block_for_request(bm, id)
                  ELSE [bm |-> bm, ret |-> 0]
         IN IF a.ret = 0 - 1
            THEN [status |-> "oom", bm |-> a.bm, block_tables |-> tables, layers |-> i - 1]
            ELSE ForwardLayers_boundary_off_by_one(i + 1, a.bm,
                    IF grow THEN [tables EXCEPT ![i] = Append(@, a.ret)] ELSE tables,
                    id, pos)

\* the per-layer loop allocating at the block boundary without recording the
\* block in the request's table
RECURSIVE ForwardLayers_no_push(_, _, _, _, _)
ForwardLayers_no_push(i, bm, tables, id, pos) ==
    IF i > NLayers THEN [status |-> "ok", bm |-> bm, block_tables |-> tables, layers |-> NLayers]
    ELSE LET a == IF pos % BlockSize = 0
                  THEN allocate_block_for_request(bm, id)
                  ELSE [bm |-> bm, ret |-> 0]
         IN IF a.ret = 0 - 1
            THEN [status |-> "oom", bm |-> a.bm, block_tables |-> tables, layers |-> i - 1]
            ELSE LET t1 == tables
                     logical_block == pos \div BlockSize
                 IN IF logical_block >= Len(t1[i])
                    THEN [status |-> "ub", bm |-> a.bm, block_tables |-> t1, layers |-> i - 1]
                    ELSE ForwardLayers_no_push(i + 1, a.bm, t1, id, pos)

\* the per-layer loop of forward_with_request: block-boundary allocation, then the
\* block-table lookup of the KV write
RECURSIVE ForwardLayers(_, _, _, _, _)
ForwardLayers(i, bm, tables, id, pos) ==
    IF i > NLayers THEN [status |-> "ok", bm |-> bm, block_tables |-> tables, layers |-> NLayers]
    ELSE LET a == IF pos % BlockSize = 0
                  THEN allocate_block_for_request(bm, id)
                  ELSE [bm |-> bm, ret |-> 0]
         IN IF a.ret = 0 - 1
            THEN [status |-> "oom", bm |-> a.bm, block_tables |-> tables, layers |-> i - 1]
            ELSE LET t1 == IF pos % BlockSize = 0
                           THEN [tables EXCEPT ![i] = Append(@, a.ret)]
                           ELSE tables
                     logical_block == pos \div BlockSize
                 IN IF logical_block >= Len(t1[i])
                    THEN [status |-> "ub", bm |-> a.bm, block_tables |-> t1, layers |-> i - 1]
                    ELSE ForwardLayers(i + 1, a.bm, t1, id, pos)

\* LlamaModel::forward_with_request; the attention scratch state.att holds
\* n_heads * max_seq_len floats, so a step at pos >= max_seq_len writes past it
forward_with_request(bm, req, pos) ==
    LET t0 == IF req.block_tables = <<>> THEN [l \in Layers |-> <<>>] ELSE req.block_tables
        f == ForwardLayers(1, bm, t0, req.id, pos)
    IN IF f.status = "ok" /\ pos >= MaxSeqLen THEN [f EXCEPT !.status = "ub"] ELSE f

\* LlamaModel::initialize_paged_attention
initialize_paged_attention(bm) == NewBlockManager(bm.num_blocks)

\* ------------------------------------------------------------ BatchedRunner
\* finish_request that retires the request without releasing its blocks
BatchedRunner_finish_request_no_free(bm, reqs, running, r) ==
    LET s == Scheduler_finish_request(reqs, running, r)
    IN [bm |-> bm, requests |-> s.requests, running_requests |-> s.running_requests]

\* BatchedRunner::finish_request: free the request's blocks, then retire it
BatchedRunner_finish_request(bm, reqs, running, r) ==
    LET s == Scheduler_finish_request(reqs, running, r)
    IN [bm |-> free_request(bm, reqs[r].id), requests |-> s.requests,
        running_requests |-> s.running_requests]

RECURSIVE AddAll(_, _, _)
AddAll(reqs, pending, ids) ==
    IF ids = <<>> THEN [requests |-> reqs, pending_queue |-> pending]
    ELSE LET a == add_request(reqs, pending, Head(ids))
         IN AddAll(a.requests, a.pending_queue, Tail(ids))

RequestVector == [i \in 1 .. NumRequests |-> i - 1]

\* enough blocks for every request to hold every position at every layer
AmpleBlocks == NumRequests * NLayers * CeilDiv(MaxPrompt + MaxSeqLen, BlockSize)

\* Config::num_blocks of a run: a pool exhausted inside the first step, one exhausted
\* by the second request or the second block, and one that is never exhausted
PoolSizes == {1, NLayers + 1, AmpleBlocks}

Init ==
    /\ \E n \in PoolSizes : /\ block_manager = NewBlockManager(n)
                             /\ model = NewPagedState(n)
    /\ ret = RetNone
    /\ \E pl \in [RequestIds -> 1 .. MaxPrompt], mt \in 0 .. MaxTok :
          requests = [r \in RequestIds |-> NewRequest(r, pl[r], mt)]
    /\ pending_queue = <<>>
    /\ running_requests = <<>>
    /\ \E m \in 0 .. MaxBatchSize, t \in 0 .. MaxTokensPerBatch :
          config = [max_batch_size |-> m, max_tokens_per_batch |-> t]
    /\ batch = EmptyBatch
    /\ pc = "start"
    /\ bi = 1
    /\ bt = 0
    /\ add_order = <<>>
    /\ admit_order = <<>>
    /\ oom_request = NoRequest
    /\ queue = NoQueue
    /\ threads = NoThreads

\* run_all, lines 40-49: enqueue every request, then reset the paged state
RunAll_Start ==
    /\ pc = "start"
    /\ LET a == AddAll(requests, pending_queue, RequestVector)
       IN /\ requests' = a.requests
          /\ pending_queue' = a.pending_queue
    /\ add_order' = add_order \o RequestVector
    /\ block_manager' = initialize_paged_attention(block_manager)
    /\ pc' = "loop"
    /\ UNCHANGED <<ret, running_requests, config, batch, bi, bt, admit_order, oom_request>>
    /\ UNCHANGED <<model, queue, threads>>

\* run_all, lines 53-73: loop test, schedule(), empty-batch break, dispatch
RunAll_Schedule ==
    /\ pc = "loop"
    /\ IF ~has_work
       THEN /\ pc' = "done"
            /\ UNCHANGED <<requests, pending_queue, running_requests, batch, admit_order>>
       ELSE LET s == schedule(config, requests, pending_queue, running_requests)
            IN /\ batch' = s.batch
               /\ requests' = s.requests
               /\ pending_queue' = s.pending_queue
               /\ running_requests' = s.running_requests
               /\ admit_order' = admit_order \o s.admitted
               /\ pc' = IF s.batch.requests = <<>> THEN "done"
                        ELSE IF s.batch.is_prefill THEN "prefill" ELSE "decode"
    /\ bi' = 1
    /\ bt' = 0
    /\ UNCHANGED <<block_manager, ret, config, add_order, oom_request>>
    /\ UNCHANGED <<model, queue, threads>>

CurReq == batch.requests[bi]

NextMember ==
    /\ bt' = 0
    /\ IF bi + 1 > Len(batch.requests)
       THEN bi' = 1 /\ pc' = "loop"
       ELSE bi' = bi + 1 /\ pc' = pc

\* run_prefill_batch, lines 101-114: one prompt token of the current member
RunPrefill_Step ==
    /\ pc = "prefill"
    /\ bt < batch.scheduled_tokens[bi]
    /\ requests[CurReq].prefill_cursor + bt < num_prompt_tokens(requests[CurReq])
    /\ LET req == requests[CurReq]
           f == forward_with_request(block_manager, req, req.current_pos)
       IN \/ /\ f.status = "oom"
             /\ block_manager' = f.bm
             /\ requests' = [requests EXCEPT ![CurReq].block_tables = f.block_tables]
             /\ oom_request' = CurReq
             /\ model' = AfterStep(model, f, block_manager.num_blocks, CurReq,
                                   req.current_pos)
             /\ pc' = "oom"
             /\ UNCHANGED <<bt>>
          \/ /\ f.status = "ub"
             /\ pc' = "ub_crash"
             /\ model' = model
             /\ UNCHANGED <<block_manager, requests, oom_request, bt>>
          \/ /\ f.status \in {"ok", "ub"}
             /\ model' = AfterStep(model, f, block_manager.num_blocks, CurReq,
                                   req.current_pos)
             /\ block_manager' = f.bm
             /\ requests' = [requests EXCEPT
                    ![CurReq].block_tables = f.block_tables,
                    ![CurReq].current_pos = @ + 1,
                    ![CurReq].num_computed_tokens = @ + 1]
             /\ bt' = bt + 1
             /\ UNCHANGED <<pc, oom_request>>
    /\ UNCHANGED <<ret, pending_queue, running_requests, config, batch, bi,
                   add_order, admit_order>>
    /\ UNCHANGED <<queue, threads>>

\* run_prefill_batch, lines 115-127: advance the cursor, enter DECODING when done
RunPrefill_EndMember ==
    /\ pc = "prefill"
    /\ \/ bt >= batch.scheduled_tokens[bi]
       \/ requests[CurReq].prefill_cursor + bt >= num_prompt_tokens(requests[CurReq])
    /\ LET r1 == [requests[CurReq] EXCEPT !.prefill_cursor = @ + batch.scheduled_tokens[bi]]
           r2 == IF ~is_prefill(r1)
                 THEN [r1 EXCEPT !.last_token = r1.prompt_tokens[Len(r1.prompt_tokens)],
                                 !.status = "DECODING"]
                 ELSE r1
       IN requests' = [requests EXCEPT ![CurReq] = r2]
    /\ NextMember
    /\ UNCHANGED <<block_manager, ret, pending_queue, running_requests, config, batch,
                   add_order, admit_order, oom_request>>
    /\ UNCHANGED <<model, queue, threads>>

\* the completion test trying max_seq_len before EOS and max_tokens
FinishReasonAfter_seq_len_first(req, next_token) ==
    IF req.current_pos >= MaxSeqLen THEN "MaxSeqLen"
    ELSE IF next_token = EOS THEN "Eos"
    ELSE IF ~can_generate_more(req) THEN "MaxTokens"
    ELSE "None"

\* the completion test of run_decode_batch, lines 162-173
FinishReasonAfter(req, next_token) ==
    IF next_token = EOS THEN "Eos"
    ELSE IF ~can_generate_more(req) THEN "MaxTokens"
    ELSE IF req.current_pos >= MaxSeqLen THEN "MaxSeqLen"
    ELSE "None"

\* run_decode_batch, lines 135-174: one decode step of the current member
RunDecode_Step ==
    /\ pc = "decode"
    /\ LET req == requests[CurReq]
           f == forward_with_request(block_manager, req, req.current_pos)
       IN \/ /\ f.status = "oom"
             /\ block_manager' = f.bm
             /\ requests' = [requests EXCEPT ![CurReq].block_tables = f.block_tables]
             /\ oom_request' = CurReq
             /\ model' = AfterStep(model, f, block_manager.num_blocks, CurReq,
                                   req.current_pos)
             /\ pc' = "oom"
             /\ UNCHANGED <<bi, bt, running_requests>>
          \/ /\ f.status = "ub"
             /\ pc' = "ub_crash"
             /\ model' = model
             /\ UNCHANGED <<block_manager, requests, oom_request, bi, bt, running_requests>>
          \/ /\ f.status \in {"ok", "ub"}
             /\ model' = AfterStep(model, f, block_manager.num_blocks, CurReq,
                                   req.current_pos)
             /\ \E next_token \in Tokens :
                  LET r1 == [req EXCEPT
                                !.block_tables = f.block_tables,
                                !.generated_tokens = Append(@, next_token),
                                !.current_pos = @ + 1,
                                !.num_computed_tokens = @ + 1,
                                !.last_token = next_token]
                      reason == FinishReasonAfter(r1, next_token)
                      r2 == [r1 EXCEPT !.finished_reason = reason]
                      reqs1 == [requests EXCEPT ![CurReq] = r2]
                  IN IF reason # "None"
                     THEN LET fin == BatchedRunner_finish_request(f.bm, reqs1,
                                                                  running_requests, CurReq)
                          IN /\ block_manager' = fin.bm
                             /\ requests' = fin.requests
                             /\ running_requests' = fin.running_requests
                     ELSE /\ block_manager' = f.bm
                          /\ requests' = reqs1
                          /\ running_requests' = running_requests
             /\ NextMember
             /\ UNCHANGED oom_request
    /\ UNCHANGED <<ret, pending_queue, config, batch, add_order, admit_order>>
    /\ UNCHANGED <<queue, threads>>

Next ==
    \/ RunAll_Start
    \/ RunAll_Schedule
    \/ RunPrefill_Step
    \/ RunPrefill_EndMember
    \/ RunDecode_Step

Spec == Init /\ [][Next]_vars

\* --------------------------------------------------- pool API specification
InitPool ==
    /\ \E n \in 1 .. PoolBlocks : block_manager = NewBlockManager(n)
    /\ ret = RetNone
    /\ requests = [r \in RequestIds |-> NewRequest(r, 1, 0)]
    /\ pending_queue = <<>>
    /\ running_requests = <<>>
    /\ config = [max_batch_size |-> 1, max_tokens_per_batch |-> 1]
    /\ batch = EmptyBatch
    /\ pc = "pool"
    /\ bi = 1
    /\ bt = 0
    /\ add_order = <<>>
    /\ admit_order = <<>>
    /\ oom_request = NoRequest
    /\ model = NoModel
    /\ queue = NoQueue
    /\ threads = NoThreads

PoolFrame ==
    UNCHANGED <<requests, pending_queue, running_requests, config, batch, pc, bi, bt,
                add_order, admit_order, oom_request, model, queue, threads>>

OwnerRoom(id) == Len(MapGet(block_manager.request_blocks, id)) < MaxOwnerLen

Call_allocate_block_for_request ==
    \E id \in RequestIds :
        /\ OwnerRoom(id)
        /\ LET r == allocate_block_for_request(block_manager, id)
           IN block_manager' = r.bm /\ ret' = RetInt(r.ret)
        /\ PoolFrame

Call_allocate_for_request ==
    \E id \in RequestIds, n \in 0 .. MaxAllocTokens :
        /\ Len(MapGet(block_manager.request_blocks, id)) + CeilDiv(n, BlockSize) <= MaxOwnerLen
        /\ LET r == allocate_for_request(block_manager, id, n)
           IN block_manager' = r.bm /\ ret' = RetBlocks(r.ret)
        /\ PoolFrame

Call_free_request ==
    \E id \in RequestIds :
        /\ block_manager' = free_request(block_manager, id)
        /\ ret' = RetVoid
        /\ PoolFrame

Call_allocate_block_safe ==
    /\ LET r == allocate_block_safe(block_manager)
       IN block_manager' = r.bm /\ ret' = RetInt(r.ret)
    /\ PoolFrame

Call_free_block_safe ==
    \E b \in (0 - 1) .. block_manager.num_blocks :
        /\ block_manager' = free_block_safe(block_manager, b)
        /\ ret' = RetVoid
        /\ PoolFrame

Call_allocate_block ==
    /\ LET r == allocate_block(block_manager)
       IN block_manager' = r.bm /\ ret' = RetInt(r.ret)
    /\ PoolFrame

Call_free_block ==
    \E b \in (0 - 1) .. block_manager.num_blocks :
        /\ LET r == free_block(block_manager, b)
           IN block_manager' = r.bm /\ ret' = RetStatus(r.ret)
        /\ PoolFrame

NextPool ==
    \/ Call_allocate_block_for_request
    \/ Call_allocate_for_request
    \/ Call_free_request
    \/ Call_allocate_block_safe
    \/ Call_free_block_safe
    \/ Call_allocate_block
    \/ Call_free_block

SpecPool == InitPool /\ [][NextPool]_vars

\* the pool API with the public sequence calls
Call_allocate_sequence ==
    \E n \in 0 .. MaxAllocTokens :
        /\ LET r == allocate_sequence(block_manager, n)
           IN /\ block_manager' = r.bm
              /\ ret' = IF r.status = "throw" THEN RetStatus("throw") ELSE RetBlocks(r.ret)
        /\ PoolFrame

Call_free_sequence ==
    \E ids \in UNION {[1 .. n -> (0 - 1) .. block_manager.num_blocks] : n \in 0 .. MaxOwnerLen} :
        /\ LET r == free_sequence(block_manager, ids)
           IN /\ block_manager' = r.bm
              /\ ret' = IF r.status = "throw" THEN RetStatus("throw") ELSE RetVoid
        /\ PoolFrame

NextPoolSeq ==
    \/ Call_allocate_block_for_request
    \/ Call_allocate_for_request
    \/ Call_free_request
    \/ Call_allocate_block_safe
    \/ Call_free_block_safe
    \/ Call_allocate_block
    \/ Call_free_block
    \/ Call_allocate_sequence
    \/ Call_free_sequence

SpecPoolSeq == InitPool /\ [][NextPoolSeq]_vars

\* the same calls with the request-level ones made for the first request only,
\* which keeps the owner map to one list
SingleOwner == DOMAIN block_manager'.request_blocks \subseteq {RequestVector[1]}

NextCounter ==
    \/ Call_allocate_block_for_request /\ SingleOwner
    \/ Call_allocate_for_request /\ SingleOwner
    \/ Call_free_request /\ SingleOwner
    \/ Call_allocate_block_safe
    \/ Call_free_block_safe
    \/ Call_allocate_block
    \/ Call_free_block
    \/ Call_allocate_sequence
    \/ Call_free_sequence

SpecCounter == InitPool /\ [][NextCounter]_vars

\* the allocation calls and free_request alone: every owner list holds blocks
\* that are allocated
NextAlloc ==
    \/ Call_allocate_block_for_request
    \/ Call_allocate_for_request
    \/ Call_free_request
    \/ Call_allocate_block_safe

SpecAlloc == InitPool /\ [][NextAlloc]_vars

\* ---------------------------------------------- scheduler API specification
\* Scheduler calls in any order.  `batch` is the value returned by the last
\* schedule() call: a batch is consumed member by member before the caller makes
\* another Scheduler call, and a call that returns void leaves no batch behind.
\* Prompts are of the shortest or the longest length.  finish_request and
\* update_after_prefill are called on requests the scheduler has handed out, as
\* the runner does.
InitSched ==
    /\ block_manager = NewBlockManager(1)
    /\ ret = RetNone
    /\ \E pl \in [RequestIds -> {1, MaxPrompt}] :
          requests = [r \in RequestIds |-> NewRequest(r, pl[r], 0)]
    /\ pending_queue = <<>>
    /\ running_requests = <<>>
    /\ \E m \in 0 .. MaxBatchSize, t \in 0 .. MaxTokensPerBatch :
          config = [max_batch_size |-> m, max_tokens_per_batch |-> t]
    /\ batch = EmptyBatch
    /\ pc = "sched"
    /\ bi = 1
    /\ bt = 0
    /\ add_order = <<>>
    /\ admit_order = <<>>
    /\ oom_request = NoRequest
    /\ model = NoModel
    /\ queue = NoQueue
    /\ threads = NoThreads

SchedFrame ==
    UNCHANGED <<block_manager, ret, config, bt, oom_request, model, queue, threads>>

Call_add_request ==
    \E r \in RequestIds :
        /\ Len(add_order) < MaxAdds
        /\ LET a == add_request(requests, pending_queue, r)
           IN requests' = a.requests /\ pending_queue' = a.pending_queue
        /\ add_order' = Append(add_order, r)
        /\ pc' = "sched"
        /\ batch' = EmptyBatch
        /\ bi' = 1
        /\ UNCHANGED <<running_requests, admit_order>>
        /\ SchedFrame

Call_schedule ==
    /\ LET s == schedule(config, requests, pending_queue, running_requests)
       IN /\ batch' = s.batch
          /\ requests' = s.requests
          /\ pending_queue' = s.pending_queue
          /\ running_requests' = s.running_requests
          /\ admit_order' = admit_order \o s.admitted
    /\ pc' = "scheduled"
    /\ bi' = 1
    /\ UNCHANGED add_order
    /\ SchedFrame

\* the caller's bookkeeping for one member of a prefill batch
\* (run_prefill_batch, lines 115-123, without the model steps)
Call_prefill_member ==
    /\ batch.is_prefill
    /\ bi <= Len(batch.requests)
    /\ LET r1 == [requests[CurReq] EXCEPT !.prefill_cursor = @ + batch.scheduled_tokens[bi]]
       IN requests' = [requests EXCEPT ![CurReq] =
                          IF ~is_prefill(r1) THEN [r1 EXCEPT !.status = "DECODING"] ELSE r1]
    /\ bi' = bi + 1
    /\ pc' = "sched"
    /\ UNCHANGED <<pending_queue, running_requests, batch, add_order, admit_order>>
    /\ SchedFrame

Call_update_after_prefill ==
    \E r \in RequestIds :
        /\ InRunning(r)
        /\ requests[r].status = "PREFILLING"
        /\ requests' = update_after_prefill(requests, r)
        /\ pc' = "sched"
        /\ batch' = EmptyBatch
        /\ bi' = 1
        /\ UNCHANGED <<pending_queue, running_requests, add_order, admit_order>>
        /\ SchedFrame

Call_finish_request ==
    \E r \in RequestIds :
        /\ InRunning(r)
        /\ LET s == Scheduler_finish_request(requests, running_requests, r)
           IN requests' = s.requests /\ running_requests' = s.running_requests
        /\ pc' = "sched"
        /\ batch' = EmptyBatch
        /\ bi' = 1
        /\ UNCHANGED <<pending_queue, add_order, admit_order>>
        /\ SchedFrame

NextSched ==
    \/ Call_add_request
    \/ Call_schedule
    \/ Call_prefill_member
    \/ Call_update_after_prefill
    \/ Call_finish_request

SpecSched == InitSched /\ [][NextSched]_vars

\* --------------------- single-prompt generation, paged and contiguous KV cache
\* run_single_prompt on one prompt with one sampler seed, once with
\* use_paged_attention and once without, advanced side by side.
Modes == {"paged", "std"}

\* the K/V row that layer i computes at position pos from its input x
KRow(i, pos, x) == <<i, pos, x>>

\* the logits of a step whose buffers were overrun
Garbage == <<0 - 1>>

\* row index into RunState::key_cache: [n_layers, max_seq_len]
StdIndex(i, pos) == (i - 1) * MaxSeqLen + pos

\* standard_attention: the rows of positions 0 .. pos of the layer
StdHistory(cache, i, pos) == [t1 \in 1 .. (pos + 1) |-> cache[StdIndex(i, t1 - 1)]]

\* LlamaModel::forward, paged branch of the layer loop
RECURSIVE ForwardPagedLayers(_, _, _, _, _, _, _, _)
ForwardPagedLayers(i, bm, tables, cache, x, pos, reads, rows) ==
    IF i > NLayers
    THEN [status |-> "ok", bm |-> bm, block_tables |-> tables, cache |-> cache,
          logits |-> x, reads |-> reads, rows |-> rows]
    ELSE LET a == IF pos % BlockSize = 0 THEN allocate_block(bm)
                  ELSE [bm |-> bm, ret |-> 0]
         IN IF a.ret = 0 - 1
            THEN [status |-> "oom", bm |-> a.bm, block_tables |-> tables, cache |-> cache,
                  logits |-> x, reads |-> reads, rows |-> rows]
            ELSE LET t1 == IF pos % BlockSize = 0
                           THEN [tables EXCEPT ![i] = Append(@, a.ret)]
                           ELSE tables
                     physical_block == t1[i][(pos \div BlockSize) + 1]
                     idx == PagedIndex(bm.num_blocks, i, physical_block, pos % BlockSize)
                     c1 == [cache EXCEPT ![idx] = KRow(i, pos, x)]
                     h == PagedHistory(c1, t1[i], bm.num_blocks, i, pos + 1)
                 IN ForwardPagedLayers(i + 1, a.bm, t1, c1, <<x, h>>, pos,
                                       Append(reads, h), Append(rows, KRow(i, pos, x)))

\* LlamaModel::forward, contiguous branch of the layer loop
RECURSIVE ForwardStdLayers(_, _, _, _, _, _)
ForwardStdLayers(i, cache, x, pos, reads, rows) ==
    IF i > NLayers
    THEN [status |-> "ok", cache |-> cache, logits |-> x, reads |-> reads, rows |-> rows]
    ELSE LET c1 == [cache EXCEPT ![StdIndex(i, pos)] = KRow(i, pos, x)]
             h == StdHistory(c1, i, pos)
         IN ForwardStdLayers(i + 1, c1, <<x, h>>, pos,
                             Append(reads, h), Append(rows, KRow(i, pos, x)))

\* LlamaModel::forward(token, pos) in mode m; at pos >= max_seq_len the attention
\* scores (and the contiguous cache) are written past their buffers
forward(m, st, bm, token, pos) ==
    IF pos >= MaxSeqLen
    THEN [status |-> "ub", bm |-> bm, block_tables |-> st.block_tables, cache |-> st.cache,
          logits |-> Garbage, reads |-> <<>>, rows |-> <<>>]
    ELSE IF m = "paged"
         THEN ForwardPagedLayers(1, bm, st.block_tables, st.cache, <<token>>, pos,
                                 <<>>, <<>>)
         ELSE LET f == ForwardStdLayers(1, st.cache, <<token>>, pos, <<>>, <<>>)
              IN [status |-> f.status, bm |-> bm, block_tables |-> st.block_tables,
                  cache |-> f.cache, logits |-> f.logits, reads |-> f.reads,
                  rows |-> f.rows]

\* the effect of a forward call on the generation's state
AfterForward(st, f) ==
    [st EXCEPT !.block_tables = f.block_tables,
               !.cache = f.cache,
               !.logits = f.logits,
               !.reads = f.reads,
               !.written = IF f.status = "ok"
                           THEN [l \in Layers |-> Append(@[l], f.rows[l])]
                           ELSE @]

\* run_single_prompt before its first forward call
NewGeneration(len, steps, cache_rows) ==
    [status |-> IF len > 1 THEN "prefill" ELSE IF steps > 0 THEN "decode" ELSE "done",
     tokens |-> PromptTokens(len),
     steps |-> steps,
     pos |-> 0,
     token |-> IF len > 1 THEN NoToken ELSE PromptTokens(len)[len],
     s |-> 0,
     block_tables |-> [l \in Layers |-> <<>>],
     cache |-> [k \in 0 .. (cache_rows - 1) |-> NoRow],
     logits |-> <<>>,
     reads |-> <<>>,
     written |-> [l \in Layers |-> <<>>],
     out |-> <<>>]

\* one iteration of the prompt loop of run_single_prompt
PrefillIteration(st, f) ==
    IF f.status = "oom" THEN [AfterForward(st, f) EXCEPT !.status = "oom"]
    ELSE LET s1 == [AfterForward(st, f) EXCEPT !.pos = @ + 1]
         IN IF s1.pos < Len(st.tokens) - 1 THEN s1
            ELSE [s1 EXCEPT !.token = st.tokens[Len(st.tokens)],
                            !.status = IF st.steps > 0 THEN "decode" ELSE "done"]

\* one iteration of the generation loop of run_single_prompt
DecodeIteration(st, f, next_token) ==
    IF f.status = "oom" THEN [AfterForward(st, f) EXCEPT !.status = "oom"]
    ELSE LET s1 == [AfterForward(st, f) EXCEPT !.out = Append(@, next_token),
                                               !.token = next_token,
                                               !.pos = @ + 1,
                                               !.s = @ + 1]
         IN [s1 EXCEPT !.status = IF s1.pos >= MaxSeqLen \/ s1.s >= st.steps
                                  THEN "done" ELSE "decode"]

\* Config::num_blocks of the paged generation
FwdPoolSizes == {1, NLayers + 1, NLayers * CeilDiv(MaxSeqLen + 1, BlockSize)}

InitForward ==
    /\ \E n \in FwdPoolSizes, len \in 1 .. (MaxSeqLen + 1), steps \in 0 .. MaxTok :
          /\ block_manager = NewBlockManager(n)
          /\ model = [m \in Modes |->
                        NewGeneration(len, steps,
                                      IF m = "paged" THEN NLayers * n * BlockSize
                                      ELSE NLayers * MaxSeqLen)]
    /\ ret = RetNone
    /\ requests = [r \in RequestIds |-> NewRequest(r, 1, 0)]
    /\ pending_queue = <<>>
    /\ running_requests = <<>>
    /\ config = [max_batch_size |-> 1, max_tokens_per_batch |-> 1]
    /\ batch = EmptyBatch
    /\ pc = "generate"
    /\ bi = 1
    /\ bt = 0
    /\ add_order = <<>>
    /\ admit_order = <<>>
    /\ oom_request = NoRequest
    /\ queue = NoQueue
    /\ threads = NoThreads

ForwardFrame ==
    UNCHANGED <<ret, requests, pending_queue, running_requests, config, batch, pc, bi, bt,
                add_order, admit_order, oom_request, queue, threads>>

\* run_single_prompt, lines 132-135, in both generations
Fwd_Prefill ==
    /\ \E m \in Modes : model[m].status = "prefill"
    /\ LET fp == forward("paged", model["paged"], block_manager,
                         model["paged"].tokens[model["paged"].pos + 1], model["paged"].pos)
           fs == forward("std", model["std"], block_manager,
                         model["std"].tokens[model["std"].pos + 1], model["std"].pos)
       IN /\ model' = [m \in Modes |->
                         IF model[m].status # "prefill" THEN model[m]
                         ELSE PrefillIteration(model[m], IF m = "paged" THEN fp ELSE fs)]
          /\ block_manager' = IF model["paged"].status = "prefill" THEN fp.bm
                              ELSE block_manager
    /\ ForwardFrame

\* run_single_prompt, lines 140-149, in both generations: the sampler is the same
\* function of the logits and of its seeded state in both
Fwd_Decode ==
    /\ \A m \in Modes : model[m].status # "prefill"
    /\ \E m \in Modes : model[m].status = "decode"
    /\ LET fp == forward("paged", model["paged"], block_manager,
                         model["paged"].token, model["paged"].pos)
           fs == forward("std", model["std"], block_manager,
                         model["std"].token, model["std"].pos)
       IN \E crash \in BOOLEAN, tok \in [Modes -> Tokens] :
             /\ (fp.logits = fs.logits /\ model["paged"].s = model["std"].s)
                    => tok["paged"] = tok["std"]
             /\ model' = [m \in Modes |->
                            LET f == IF m = "paged" THEN fp ELSE fs
                            IN IF model[m].status # "decode" THEN model[m]
                               ELSE IF f.status = "ub" /\ crash
                                    THEN [model[m] EXCEPT !.status = "ub_crash"]
                               ELSE DecodeIteration(model[m], f, tok[m])]
             /\ block_manager' = IF model["paged"].status = "decode" THEN fp.bm
                                 ELSE block_manager
    /\ ForwardFrame

NextForward ==
    \/ Fwd_Prefill
    \/ Fwd_Decode

SpecForward == InitForward /\ [][NextForward]_vars

\* ------------------------------------------- AsyncRequestQueue and its threads
\* One producer thread running RequestSubmitter::run and one consumer thread
\* calling the queue's consumer-side operations, interleaved at every mutex and
\* condition-variable operation.
Producer == "producer"

Consumer == "consumer"

\* calls the consumer thread makes
MaxCalls == 4

\* AsyncRequestQueue after construction; submitted and drained record the
\* requests pushed and the requests handed out, in order
NewQueue ==
    [pending_requests |-> <<>>, all_submitted |-> FALSE, mutex |-> "free",
     waiters |-> {}, submitted |-> <<>>, drained |-> <<>>]

NewThread(at) ==
    [pc |-> at, i |-> 1, calls |-> 0, op |-> "none", result |-> "none", got |-> <<>>,
     timed_out |-> FALSE, before |-> FALSE, entry_pred |-> FALSE, during |-> FALSE]

\* the wait predicate testing the queue only
wait_pred_pending_only(q) == q.pending_requests # <<>>

\* the predicate of cv_.wait_for in wait_for_requests
wait_pred(q) == q.pending_requests # <<>> \/ q.all_submitted

\* submit_request inserting at the front
push_front(q, r) ==
    [q EXCEPT !.pending_requests = <<r>> \o @, !.submitted = Append(@, r)]

\* pending_requests_.push_back(request)
push_back(q, r) ==
    [q EXCEPT !.pending_requests = Append(@, r), !.submitted = Append(@, r)]

InWait(t) == t.pc \in {"w_check", "w_blocked", "w_relock"}

\* the consumer's record of a push or mark that lands while it is inside a wait
NoteDuring(ths) ==
    [ths EXCEPT ![Consumer].during = @ \/ InWait(ths[Consumer])]

InitIntake ==
    /\ queue = NewQueue
    /\ threads = [t \in {Producer, Consumer} |->
                    NewThread(IF t = Producer THEN "sleep" ELSE "idle")]
    /\ block_manager = NewBlockManager(1)
    /\ ret = RetNone
    /\ requests = [r \in RequestIds |-> NewRequest(r, 1, 0)]
    /\ pending_queue = <<>>
    /\ running_requests = <<>>
    /\ config = [max_batch_size |-> 1, max_tokens_per_batch |-> 1]
    /\ batch = EmptyBatch
    /\ pc = "intake"
    /\ bi = 1
    /\ bt = 0
    /\ add_order = <<>>
    /\ admit_order = <<>>
    /\ oom_request = NoRequest
    /\ model = NoModel

IntakeFrame ==
    UNCHANGED <<block_manager, ret, requests, pending_queue, running_requests, config,
                batch, pc, bi, bt, add_order, admit_order, oom_request, model>>

\* RequestSubmitter::run, lines 254-260, and the lock_guard of submit_request
Submit_Lock ==
    /\ threads[Producer].pc = "sleep"
    /\ threads[Producer].i <= Len(RequestVector)
    /\ queue.mutex = "free"
    /\ queue' = [queue EXCEPT !.mutex = Producer]
    /\ threads' = [threads EXCEPT ![Producer].pc = "s_push"]
    /\ IntakeFrame

\* submit_request, lines 32-34: push_back, end of the lock_guard scope
Submit_Push ==
    /\ threads[Producer].pc = "s_push"
    /\ queue' = [push_back(queue, RequestVector[threads[Producer].i]) EXCEPT
                    !.mutex = "free"]
    /\ threads' = [NoteDuring(threads) EXCEPT ![Producer].pc = "s_notify"]
    /\ IntakeFrame

\* submit_request, line 35: cv_.notify_one()
Submit_Notify ==
    /\ threads[Producer].pc = "s_notify"
    /\ \/ /\ queue.waiters = {}
          /\ queue' = queue
       \/ \E w \in queue.waiters : queue' = [queue EXCEPT !.waiters = @ \ {w}]
    /\ threads' = [threads EXCEPT ![Producer].pc = "sleep", ![Producer].i = @ + 1]
    /\ IntakeFrame

\* the producer calling mark_all_submitted before its last submit_request
Mark_Lock_before_last ==
    /\ threads[Producer].pc = "sleep"
    /\ threads[Producer].i >= Len(RequestVector)
    /\ queue.mutex = "free"
    /\ queue' = [queue EXCEPT !.mutex = Producer]
    /\ threads' = [threads EXCEPT ![Producer].pc = "m_set"]
    /\ IntakeFrame

\* RequestSubmitter::run, line 272, and the lock_guard of mark_all_submitted
Mark_Lock ==
    /\ threads[Producer].pc = "sleep"
    /\ threads[Producer].i > Len(RequestVector)
    /\ queue.mutex = "free"
    /\ queue' = [queue EXCEPT !.mutex = Producer]
    /\ threads' = [threads EXCEPT ![Producer].pc = "m_set"]
    /\ IntakeFrame

\* mark_all_submitted, lines 80-82
Mark_Set ==
    /\ threads[Producer].pc = "m_set"
    /\ queue' = [queue EXCEPT !.all_submitted = TRUE, !.mutex = "free"]
    /\ threads' = [NoteDuring(threads) EXCEPT ![Producer].pc = "m_notify"]
    /\ IntakeFrame

\* mark_all_submitted, line 83: cv_.notify_all()
Mark_Notify ==
    /\ threads[Producer].pc = "m_notify"
    /\ queue' = [queue EXCEPT !.waiters = {}]
    /\ threads' = [threads EXCEPT ![Producer].pc = "done"]
    /\ IntakeFrame

\* wait_for_requests, line 66: the unique_lock
Wait_Lock ==
    /\ threads[Consumer].pc = "idle"
    /\ threads[Consumer].calls < MaxCalls
    /\ queue.mutex = "free"
    /\ queue' = [queue EXCEPT !.mutex = Consumer]
    /\ threads' = [threads EXCEPT ![Consumer].pc = "w_check",
                                  ![Consumer].calls = @ + 1,
                                  ![Consumer].op = "wait_for_requests",
                                  ![Consumer].result = "none",
                                  ![Consumer].timed_out = FALSE,
                                  ![Consumer].before = (queue.submitted # <<>>
                                                          \/ queue.all_submitted),
                                  ![Consumer].entry_pred = wait_pred(queue),
                                  ![Consumer].during = FALSE]
    /\ IntakeFrame

\* cv_.wait_for, the loop test: return true, or release the mutex and block
Wait_Check ==
    /\ threads[Consumer].pc = "w_check"
    /\ IF wait_pred(queue)
       THEN /\ queue' = [queue EXCEPT !.mutex = "free"]
            /\ threads' = [threads EXCEPT ![Consumer].pc = "idle",
                                          ![Consumer].result = "true"]
       ELSE /\ queue' = [queue EXCEPT !.mutex = "free", !.waiters = @ \cup {Consumer}]
            /\ threads' = [threads EXCEPT ![Consumer].pc = "w_blocked"]
    /\ IntakeFrame

\* cv_.wait_for: woken by a notification or spuriously
Wait_Wake ==
    /\ threads[Consumer].pc = "w_blocked"
    /\ queue' = [queue EXCEPT !.waiters = @ \ {Consumer}]
    /\ threads' = [threads EXCEPT ![Consumer].pc = "w_relock"]
    /\ IntakeFrame

\* cv_.wait_for: the timeout expires
Wait_Timeout ==
    /\ threads[Consumer].pc = "w_blocked"
    /\ queue' = [queue EXCEPT !.waiters = @ \ {Consumer}]
    /\ threads' = [threads EXCEPT ![Consumer].pc = "w_relock",
                                  ![Consumer].timed_out = TRUE]
    /\ IntakeFrame

\* cv_.wait_for: re-acquire the mutex; after a timeout return the predicate
Wait_Relock ==
    /\ threads[Consumer].pc = "w_relock"
    /\ queue.mutex = "free"
    /\ IF threads[Consumer].timed_out
       THEN /\ queue' = queue
            /\ threads' = [threads EXCEPT
                              ![Consumer].pc = "idle",
                              ![Consumer].result = IF wait_pred(queue) THEN "true"
                                                   ELSE "false"]
       ELSE /\ queue' = [queue EXCEPT !.mutex = Consumer]
            /\ threads' = [threads EXCEPT ![Consumer].pc = "w_check"]
    /\ IntakeFrame

\* get_pending, line 47: the lock_guard
Get_Lock ==
    /\ threads[Consumer].pc = "idle"
    /\ threads[Consumer].calls < MaxCalls
    /\ queue.mutex = "free"
    /\ queue' = [queue EXCEPT !.mutex = Consumer]
    /\ threads' = [threads EXCEPT ![Consumer].pc = "g_move",
                                  ![Consumer].calls = @ + 1,
                                  ![Consumer].op = "get_pending",
                                  ![Consumer].result = "none"]
    /\ IntakeFrame

\* get_pending, lines 48-49: move the vector out, clear it
Get_Move ==
    /\ threads[Consumer].pc = "g_move"
    /\ queue' = [queue EXCEPT !.pending_requests = <<>>,
                              !.drained = @ \o queue.pending_requests]
    /\ threads' = [threads EXCEPT ![Consumer].pc = "g_return",
                                  ![Consumer].got = queue.pending_requests]
    /\ IntakeFrame

\* get_pending, line 50: return, end of the lock_guard scope
Get_Return ==
    /\ threads[Consumer].pc = "g_return"
    /\ queue' = [queue EXCEPT !.mutex = "free"]
    /\ threads' = [threads EXCEPT ![Consumer].pc = "idle"]
    /\ IntakeFrame

\* is_done and has_pending, lines 91-106: a read under the mutex
Call_is_done ==
    /\ threads[Consumer].pc = "idle"
    /\ threads[Consumer].calls < MaxCalls
    /\ queue.mutex = "free"
    /\ \E op \in {"is_done", "has_pending"} :
          threads' = [threads EXCEPT
                         ![Consumer].calls = @ + 1,
                         ![Consumer].op = op,
                         ![Consumer].result =
                             IF (IF op = "is_done" THEN queue.all_submitted
                                 ELSE queue.pending_requests # <<>>)
                             THEN "true" ELSE "false"]
    /\ queue' = queue
    /\ IntakeFrame

NextIntake ==
    \/ Submit_Lock
    \/ Submit_Push
    \/ Submit_Notify
    \/ Mark_Lock
    \/ Mark_Set
    \/ Mark_Notify
    \/ Wait_Lock
    \/ Wait_Check
    \/ Wait_Wake
    \/ Wait_Timeout
    \/ Wait_Relock
    \/ Get_Lock
    \/ Get_Move
    \/ Get_Return
    \/ Call_is_done

SpecIntake == InitIntake /\ [][NextIntake]_vars

\* ------------------------------------------- producer thread and runner thread
\* The producer is RequestSubmitter::run; the runner is the loop
\* run_until_quiescent(intake), whose steps are run_prefill_batch and
\* run_decode_batch.
AsyncPoolSizes == {1, AmpleBlocks}

InitAsync ==
    /\ \E n \in AsyncPoolSizes : /\ block_manager = NewBlockManager(n)
                                 /\ model = NewPagedState(n)
    /\ ret = RetNone
    /\ \E pl \in [RequestIds -> {1, MaxPrompt}], mt \in {0, MaxTok} :
          requests = [r \in RequestIds |-> NewRequest(r, pl[r], mt)]
    /\ pending_queue = <<>>
    /\ running_requests = <<>>
    /\ \E t \in {1, MaxTokensPerBatch} :
          config = [max_batch_size |-> MaxBatchSize, max_tokens_per_batch |-> t]
    /\ batch = EmptyBatch
    /\ pc = "start"
    /\ bi = 1
    /\ bt = 0
    /\ add_order = <<>>
    /\ admit_order = <<>>
    /\ oom_request = NoRequest
    /\ queue = NewQueue
    /\ threads = [t \in {Producer, Consumer} |->
                    NewThread(IF t = Producer THEN "sleep" ELSE "runner")]

\* run_until_quiescent: reset paged state
Async_Start ==
    /\ pc = "start"
    /\ block_manager' = initialize_paged_attention(block_manager)
    /\ pc' = "loop"
    /\ UNCHANGED <<ret, requests, pending_queue, running_requests, config, batch, bi, bt,
                   add_order, admit_order, oom_request, model, queue, threads>>

\* run_until_quiescent: drain intake, add_request for each arrival
Async_Drain ==
    /\ pc = "loop"
    /\ queue.mutex = "free"
    /\ LET got == queue.pending_requests
           a == AddAll(requests, pending_queue, got)
       IN /\ queue' = [queue EXCEPT !.pending_requests = <<>>, !.drained = @ \o got]
          /\ threads' = [threads EXCEPT ![Consumer].op = "get_pending",
                                        ![Consumer].got = got]
          /\ requests' = a.requests
          /\ pending_queue' = a.pending_queue
          /\ add_order' = add_order \o got
    /\ pc' = "schedule"
    /\ UNCHANGED <<block_manager, ret, running_requests, config, batch, bi, bt,
                   admit_order, oom_request, model>>

\* run_until_quiescent: batch = scheduler.schedule(), dispatch on the batch
Async_Schedule ==
    /\ pc = "schedule"
    /\ LET s == schedule(config, requests, pending_queue, running_requests)
       IN /\ batch' = s.batch
          /\ requests' = s.requests
          /\ pending_queue' = s.pending_queue
          /\ running_requests' = s.running_requests
          /\ admit_order' = admit_order \o s.admitted
          /\ pc' = IF s.batch.requests = <<>> THEN "check"
                   ELSE IF s.batch.is_prefill THEN "prefill" ELSE "decode"
    /\ bi' = 1
    /\ bt' = 0
    /\ UNCHANGED <<block_manager, ret, config, add_order, oom_request, model, queue,
                   threads>>

\* run_until_quiescent, empty batch: break if intake.done() and scheduler idle
Async_Check ==
    /\ pc = "check"
    /\ queue.mutex = "free"
    /\ threads' = [threads EXCEPT ![Consumer].op = "is_done",
                                  ![Consumer].result = IF queue.all_submitted
                                                       THEN "true" ELSE "false"]
    /\ pc' = IF queue.all_submitted /\ ~has_work THEN "done" ELSE "wait"
    /\ UNCHANGED <<block_manager, ret, requests, pending_queue, running_requests, config,
                   batch, bi, bt, add_order, admit_order, oom_request, model, queue>>

\* run_until_quiescent, empty batch: the bounded wait on the intake has returned
Async_Wait ==
    /\ pc = "wait"
    /\ queue.mutex = "free"
    /\ \E timed_out \in BOOLEAN :
          /\ ~timed_out => wait_pred(queue)
          /\ threads' = [threads EXCEPT ![Consumer].op = "wait_for_requests",
                                        ![Consumer].timed_out = timed_out,
                                        ![Consumer].result = IF wait_pred(queue)
                                                             THEN "true" ELSE "false"]
    /\ pc' = "loop"
    /\ UNCHANGED <<block_manager, ret, requests, pending_queue, running_requests, config,
                   batch, bi, bt, add_order, admit_order, oom_request, model, queue>>

\* failure semantics of run_until_quiescent: the failed request ends FAILED with
\* OOM, its blocks are freed, it leaves the running set, the loop continues
Async_Failed ==
    /\ pc = "oom"
    /\ block_manager' = free_request(block_manager, requests[oom_request].id)
    /\ requests' = [requests EXCEPT ![oom_request].status = "FAILED",
                                    ![oom_request].finished_reason = "OOM"]
    /\ running_requests' = RemoveAll(running_requests, oom_request)
    /\ pc' = "loop"
    /\ bi' = 1
    /\ bt' = 0
    /\ UNCHANGED <<ret, pending_queue, config, batch, add_order, admit_order,
                   oom_request, model, queue, threads>>

NextAsync ==
    \/ Submit_Lock
    \/ Submit_Push
    \/ Submit_Notify
    \/ Mark_Lock
    \/ Mark_Set
    \/ Mark_Notify
    \/ Async_Start
    \/ Async_Drain
    \/ Async_Schedule
    \/ Async_Check
    \/ Async_Wait
    \/ Async_Failed
    \/ RunPrefill_Step
    \/ RunPrefill_EndMember
    \/ RunDecode_Step

SpecAsync == InitAsync /\ [][NextAsync]_vars

\* ------------------------------------------- two threads on one BlockManager
\* Two threads call pool operations.  The operations of lines 375-471 take no
\* lock, so their loads and stores interleave with everything else; the _safe
\* operations run the same steps between taking and releasing mutex_.
PoolThreads == {"T1", "T2"}

\* pool calls each thread makes
MaxPoolCalls == 2

NewPoolThread ==
    [pc |-> "idle", op |-> "none", locked |-> FALSE, i |-> 0, n |-> 0, b |-> 0,
     result |-> 0, held |-> {}, calls |-> 0, seen_free |-> 0, seen_bits |-> 0]

NumFreeBits(bm) == Cardinality({b \in DOMAIN bm.free_blocks : bm.free_blocks[b]})

\* the end of a call: the lock_guard, if any, is released
Unlock(bm, t) == IF threads[t].locked THEN [bm EXCEPT !.mutex = "free"] ELSE bm

InitRace ==
    /\ \E n \in 1 .. PoolBlocks : block_manager = NewBlockManager(n)
    /\ threads = [t \in PoolThreads |-> NewPoolThread]
    /\ ret = RetNone
    /\ requests = [r \in RequestIds |-> NewRequest(r, 1, 0)]
    /\ pending_queue = <<>>
    /\ running_requests = <<>>
    /\ config = [max_batch_size |-> 1, max_tokens_per_batch |-> 1]
    /\ batch = EmptyBatch
    /\ pc = "pool"
    /\ bi = 1
    /\ bt = 0
    /\ add_order = <<>>
    /\ admit_order = <<>>
    /\ oom_request = NoRequest
    /\ model = NoModel
    /\ queue = NoQueue

RaceFrame ==
    UNCHANGED <<ret, requests, pending_queue, running_requests, config, batch, pc, bi, bt,
                add_order, admit_order, oom_request, model, queue>>

\* a thread enters allocate_block (no lock) or allocate_block_safe (lock_guard)
Alloc_Call ==
    \E t \in PoolThreads, locked \in BOOLEAN :
        /\ threads[t].pc = "idle"
        /\ threads[t].calls < MaxPoolCalls
        /\ locked => block_manager.mutex = "free"
        /\ block_manager' = IF locked THEN [block_manager EXCEPT !.mutex = t]
                            ELSE block_manager
        /\ threads' = [threads EXCEPT ![t].pc = "a_check",
                                      ![t].op = IF locked THEN "allocate_block_safe"
                                                ELSE "allocate_block",
                                      ![t].locked = locked,
                                      ![t].calls = @ + 1]
        /\ RaceFrame

\* if (num_free_blocks_ == 0) return -1
Alloc_Check ==
    \E t \in PoolThreads :
        /\ threads[t].pc = "a_check"
        /\ IF block_manager.num_free_blocks = 0
           THEN /\ threads' = [threads EXCEPT ![t].pc = "idle", ![t].result = 0 - 1]
                /\ block_manager' = Unlock(block_manager, t)
           ELSE /\ threads' = [threads EXCEPT ![t].pc = "a_scan", ![t].i = 0]
                /\ block_manager' = block_manager
        /\ RaceFrame

\* for (i = 0; i < num_blocks_; i++) if (free_blocks_[i])
Alloc_Scan ==
    \E t \in PoolThreads :
        /\ threads[t].pc = "a_scan"
        /\ IF threads[t].i >= block_manager.num_blocks
           THEN /\ threads' = [threads EXCEPT ![t].pc = "idle", ![t].result = 0 - 1]
                /\ block_manager' = Unlock(block_manager, t)
           ELSE /\ threads' = IF block_manager.free_blocks[threads[t].i]
                              THEN [threads EXCEPT ![t].pc = "a_clear"]
                              ELSE [threads EXCEPT ![t].i = @ + 1]
                /\ block_manager' = block_manager
        /\ RaceFrame

\* free_blocks_[i] = false
Alloc_Clear ==
    \E t \in PoolThreads :
        /\ threads[t].pc = "a_clear"
        /\ block_manager' = [block_manager EXCEPT !.free_blocks[threads[t].i] = FALSE]
        /\ threads' = [threads EXCEPT ![t].pc = "a_load"]
        /\ RaceFrame

\* num_free_blocks_--, the load
Alloc_Load ==
    \E t \in PoolThreads :
        /\ threads[t].pc = "a_load"
        /\ threads' = [threads EXCEPT ![t].pc = "a_store",
                                      ![t].n = block_manager.num_free_blocks]
        /\ block_manager' = block_manager
        /\ RaceFrame

\* num_free_blocks_--, the store; return i
Alloc_Store ==
    \E t \in PoolThreads :
        /\ threads[t].pc = "a_store"
        /\ block_manager' = Unlock([block_manager EXCEPT
                                       !.num_free_blocks = threads[t].n - 1], t)
        /\ threads' = [threads EXCEPT ![t].pc = "idle",
                                      ![t].result = threads[t].i,
                                      ![t].held = @ \cup {threads[t].i}]
        /\ RaceFrame

\* a thread enters free_block (no lock) or free_block_safe (lock_guard) with a
\* block it was handed
Free_Call ==
    \E t \in PoolThreads, locked \in BOOLEAN :
        \E b \in threads[t].held :
            /\ threads[t].pc = "idle"
            /\ threads[t].calls < MaxPoolCalls
            /\ locked => block_manager.mutex = "free"
            /\ block_manager' = IF locked THEN [block_manager EXCEPT !.mutex = t]
                                ELSE block_manager
            /\ threads' = [threads EXCEPT ![t].pc = "f_test",
                                          ![t].op = IF locked THEN "free_block_safe"
                                                    ELSE "free_block",
                                          ![t].locked = locked,
                                          ![t].b = b,
                                          ![t].calls = @ + 1]
            /\ RaceFrame

\* if (free_blocks_[block_id]) return
Free_Test ==
    \E t \in PoolThreads :
        /\ threads[t].pc = "f_test"
        /\ IF block_manager.free_blocks[threads[t].b]
           THEN /\ threads' = [threads EXCEPT ![t].pc = "idle",
                                              ![t].held = @ \ {threads[t].b}]
                /\ block_manager' = Unlock(block_manager, t)
           ELSE /\ threads' = [threads EXCEPT ![t].pc = "f_set"]
                /\ block_manager' = block_manager
        /\ RaceFrame

\* free_blocks_[block_id] = true
Free_Set ==
    \E t \in PoolThreads :
        /\ threads[t].pc = "f_set"
        /\ block_manager' = [block_manager EXCEPT !.free_blocks[threads[t].b] = TRUE]
        /\ threads' = [threads EXCEPT ![t].pc = "f_load"]
        /\ RaceFrame

\* num_free_blocks_++, the load
Free_Load ==
    \E t \in PoolThreads :
        /\ threads[t].pc = "f_load"
        /\ threads' = [threads EXCEPT ![t].pc = "f_store",
                                      ![t].n = block_manager.num_free_blocks]
        /\ block_manager' = block_manager
        /\ RaceFrame

\* num_free_blocks_++, the store
Free_Store ==
    \E t \in PoolThreads :
        /\ threads[t].pc = "f_store"
        /\ block_manager' = Unlock([block_manager EXCEPT
                                       !.num_free_blocks = threads[t].n + 1], t)
        /\ threads' = [threads EXCEPT ![t].pc = "idle",
                                      ![t].held = @ \ {threads[t].b}]
        /\ RaceFrame

\* get_num_free_blocks / is_free / get_utilization: a read without the mutex;
\* seen_bits is what the bitmap holds at that instant
Read_Unlocked ==
    \E t \in PoolThreads :
        /\ threads[t].pc = "idle"
        /\ threads[t].calls < MaxPoolCalls
        /\ threads' = [threads EXCEPT ![t].op = "get_num_free_blocks",
                                      ![t].locked = FALSE,
                                      ![t].calls = @ + 1,
                                      ![t].seen_free = block_manager.num_free_blocks,
                                      ![t].seen_bits = NumFreeBits(block_manager)]
        /\ block_manager' = block_manager
        /\ RaceFrame

NextRace ==
    \/ Alloc_Call
    \/ Alloc_Check
    \/ Alloc_Scan
    \/ Alloc_Clear
    \/ Alloc_Load
    \/ Alloc_Store
    \/ Free_Call
    \/ Free_Test
    \/ Free_Set
    \/ Free_Load
    \/ Free_Store
    \/ Read_Unlocked

SpecRace == InitRace /\ [][NextRace]_vars

\* ------------------------------------------- a second run over the same requests
\* std::vector::resize of paged_key_cache / paged_value_cache to the size of a
\* pool of nb blocks: rows already there keep their content, new rows are zero
resize_paged_cache(cache, nb) ==
    [k \in 0 .. (NLayers * nb * BlockSize - 1) |->
        IF k \in DOMAIN cache THEN cache[k] ELSE NoRow]

\* BatchedRunner::reset_model_state with use_paged_attention: a new BlockManager
\* and the resize of the paged caches; requests are not visited
reset_model_state(bm, st) ==
    [bm |-> initialize_paged_attention(bm),
     model |-> [st EXCEPT !.cache = resize_paged_cache(st.cache, bm.num_blocks)]]

InitReset ==
    /\ block_manager = NewBlockManager(AmpleBlocks)
    /\ model = NewPagedState(AmpleBlocks)
    /\ ret = RetNone
    /\ \E pl \in [RequestIds -> {1, MaxPrompt}], mt \in {0, MaxTok} :
          requests = [r \in RequestIds |-> NewRequest(r, pl[r], mt)]
    /\ pending_queue = <<>>
    /\ running_requests = <<>>
    /\ \E t \in {1, MaxTokensPerBatch} :
          config = [max_batch_size |-> MaxBatchSize, max_tokens_per_batch |-> t]
    /\ batch = EmptyBatch
    /\ pc = "start"
    /\ bi = 1
    /\ bt = 0
    /\ add_order = <<>>
    /\ admit_order = <<>>
    /\ oom_request = NoRequest
    /\ queue = NoQueue
    /\ threads = NoThreads

\* run_all called again with the same request vector and scheduler, lines 40-49:
\* add_request on every request, then reset_model_state
RunAll_Again ==
    /\ pc = "done"
    /\ LET a == AddAll(requests, pending_queue, RequestVector)
       IN /\ requests' = a.requests
          /\ pending_queue' = a.pending_queue
    /\ add_order' = add_order \o RequestVector
    /\ LET s == reset_model_state(block_manager, model)
       IN /\ block_manager' = s.bm
          /\ model' = s.model
    /\ pc' = "again"
    /\ UNCHANGED <<ret, running_requests, config, batch, bi, bt, admit_order, oom_request>>
    /\ UNCHANGED <<queue, threads>>

NextReset ==
    \/ RunAll_Start
    \/ RunAll_Schedule
    \/ RunPrefill_Step
    \/ RunPrefill_EndMember
    \/ RunDecode_Step
    \/ RunAll_Again

SpecReset == InitReset /\ [][NextReset]_vars

\* ------------------------------------------------------ parse_benchmark_input
\* A JSON value is a record with its variant alternative; Absent stands for a key
\* that JsonObject::data does not hold. Numbers are kept in tenths, so that the
\* double -> int and double -> float casts of get_int / get_float are visible.
\* The parser's locals are held in: batch (the JsonArray "requests"), bi (the
\* position of the range-for), bt (request_id), requests (result) and ret (what
\* the caller receives).
MaxEntries == 2

Absent == [type |-> "absent", val |-> 0, str |-> ""]

JsonNumber(tenths) == [type |-> "number", val |-> tenths, str |-> ""]

JsonString(s) == [type |-> "string", val |-> 0, str |-> s]

Tenths(n) == 10 * n

\* JsonObject::get_string
get_string(obj, key, default_val) ==
    IF obj[key].type = "absent" THEN default_val
    ELSE IF obj[key].type = "string" THEN obj[key].str
    ELSE default_val

\* JsonObject::get_number (a double, in tenths)
get_number(obj, key, default_val) ==
    IF obj[key].type = "absent" THEN default_val
    ELSE IF obj[key].type = "number" THEN obj[key].val
    ELSE default_val

\* JsonObject::get_int: static_cast<int> truncates the double
get_int(obj, key, default_val) == get_number(obj, key, Tenths(default_val)) \div 10

\* JsonObject::get_float, in tenths; the default 0.9f is 9 tenths
get_float(obj, key, default_tenths) == get_number(obj, key, default_tenths)

\* Request(req_id, prompt_text, params) as parse_benchmark_input builds it
ParsedRequest(request_id, prompt, temperature, top_p, max_tokens) ==
    [id |-> request_id, prompt |-> prompt,
     sampling_params |-> [temperature |-> temperature, top_p |-> top_p,
                          max_tokens |-> max_tokens]]

\* the loop body that does not test the prompt
parse_entry_no_prompt_check(result, request_id, req_obj) ==
    LET prompt == get_string(req_obj, "prompt", "")
        temperature == get_float(req_obj, "temperature", 10)
        top_p == get_float(req_obj, "top_p", 9)
        max_tokens == get_int(req_obj, "max_tokens", 256)
    IN [status |-> "ok",
        result |-> Append(result, ParsedRequest(request_id, prompt, temperature,
                                                top_p, max_tokens)),
        request_id |-> request_id + 1]

\* one iteration of the loop of parse_benchmark_input, lines 312-323
parse_entry(result, request_id, req_obj) ==
    LET prompt == get_string(req_obj, "prompt", "")
        temperature == get_float(req_obj, "temperature", 10)
        top_p == get_float(req_obj, "top_p", 9)
        max_tokens == get_int(req_obj, "max_tokens", 256)
    IN IF prompt = ""
       THEN [status |-> "throw", result |-> result, request_id |-> request_id]
       ELSE [status |-> "ok",
             result |-> Append(result, ParsedRequest(request_id, prompt, temperature,
                                                     top_p, max_tokens)),
             request_id |-> request_id + 1]

\* the entries a benchmark file may hold
JsonEntries ==
    [prompt : {Absent, JsonString(""), JsonString("a"), JsonNumber(Tenths(1))},
     temperature : {Absent, JsonNumber(5)},
     top_p : {Absent, JsonString("x")},
     max_tokens : {Absent, JsonNumber(75)}]

JsonArrays == UNION {[1 .. n -> JsonEntries] : n \in 0 .. MaxEntries}

RetVector(v) == [kind |-> "vector", val |-> Len(v), blocks |-> v]

InitParse ==
    /\ batch \in JsonArrays
    /\ requests = <<>>
    /\ ret = RetNone
    /\ pc = "loop"
    /\ bi = 1
    /\ bt = 0
    /\ block_manager = NewBlockManager(1)
    /\ pending_queue = <<>>
    /\ running_requests = <<>>
    /\ config = [max_batch_size |-> 0, max_tokens_per_batch |-> 0]
    /\ add_order = <<>>
    /\ admit_order = <<>>
    /\ oom_request = NoRequest
    /\ model = NoModel
    /\ queue = NoQueue
    /\ threads = NoThreads

ParseFrame ==
    UNCHANGED <<block_manager, pending_queue, running_requests, config, batch,
                add_order, admit_order, oom_request, model, queue, threads>>

\* lines 312-323: one entry; a throw unwinds and destroys result
Parse_Entry ==
    /\ pc = "loop"
    /\ bi <= Len(batch)
    /\ LET e == parse_entry(requests, bt, batch[bi])
       IN IF e.status = "throw"
          THEN /\ pc' = "thrown"
               /\ requests' = <<>>
               /\ ret' = RetStatus("throw")
               /\ UNCHANGED <<bi, bt>>
          ELSE /\ requests' = e.result
               /\ bt' = e.request_id
               /\ bi' = bi + 1
               /\ UNCHANGED <<pc, ret>>
    /\ ParseFrame

\* line 325: return result
Parse_Return ==
    /\ pc = "loop"
    /\ bi > Len(batch)
    /\ pc' = "returned"
    /\ ret' = RetVector(requests)
    /\ UNCHANGED <<requests, bi, bt>>
    /\ ParseFrame

NextParse ==
    \/ Parse_Entry
    \/ Parse_Return

SpecParse == InitParse /\ [][NextParse]_vars

\* ------------------------------------------------------------------ claims
OwnerSum(bm) == SumLens(bm.request_blocks, DOMAIN bm.request_blocks)

NoSharedBlock(bm) ==
    \A r1, r2 \in DOMAIN bm.request_blocks :
        r1 # r2 => Range(bm.request_blocks[r1]) \cap Range(bm.request_blocks[r2]) = {}

\* C1: block-pool conservation: after any sequence of the BlockManager's public
\* operations, free count + sum of owner-list lengths = N and no block id is in
\* two owner lists.
C1_PoolConservation ==
    /\ block_manager.num_free_blocks + OwnerSum(block_manager) = block_manager.num_blocks
    /\ NoSharedBlock(block_manager)


\* C1 fails on the code: allocate_block_safe / allocate_block take a block that no
\* owner list records, and free_block_safe / free_block leave a freed id in its
\* owner list, so that a later allocation puts it in a second list.

RECURSIVE SumSeq(_)
SumSeq(q) == IF q = <<>> THEN 0 ELSE Head(q) + SumSeq(Tail(q))

IsPrefix(p, q) == Len(p) <= Len(q) /\ SubSeq(q, 1, Len(p)) = p

Suffix(q, n) == SubSeq(q, Len(q) - n + 1, Len(q))

RunEnded == pc \in {"done", "oom", "ub_crash"}

Admitted(r) == requests[r].status # "PENDING"

\* C2: no leak on completion: when run_all has ended and every admitted request is
\* terminal, the pool's free count is N and the owner map is empty.
C2_NoLeakOnCompletion ==
    (RunEnded /\ \A r \in RequestIds : Admitted(r) => is_finished(requests[r]))
        => /\ block_manager.num_free_blocks = block_manager.num_blocks
           /\ DOMAIN block_manager.request_blocks = {}

C2_Witness ==
    /\ pc = "done"
    /\ \A r \in RequestIds :
          /\ requests[r].status = "FINISHED"
          /\ requests[r].current_pos > BlockSize
    /\ block_manager.num_free_blocks = block_manager.num_blocks

\* the state right after schedule() returned a batch
JustScheduled ==
    \/ pc = "scheduled"
    \/ pc \in {"prefill", "decode"} /\ bi = 1 /\ bt = 0

\* C3: scheduler purity: a non-empty batch returned by schedule() is all-decode
\* (members DECODING, 1 token each) or all-prefill (members just admitted from the
\* pending queue), its tokens sum to at most max_tokens_per_batch and its size is at
\* most max_batch_size.
C3_SchedulerPurity ==
    (JustScheduled /\ batch.requests # <<>>) =>
        /\ Len(batch.scheduled_tokens) = Len(batch.requests)
        /\ batch.total_scheduled_tokens = SumSeq(batch.scheduled_tokens)
        /\ batch.total_scheduled_tokens <= config.max_tokens_per_batch
        /\ Len(batch.requests) <= config.max_batch_size
        /\ IF batch.is_prefill
           THEN /\ Len(admit_order) >= Len(batch.requests)
                /\ batch.requests = Suffix(admit_order, Len(batch.requests))
                /\ \A i \in 1 .. Len(batch.requests) :
                      /\ requests[batch.requests[i]].status = "PREFILLING"
                      /\ batch.scheduled_tokens[i] >= 1
           ELSE \A i \in 1 .. Len(batch.requests) :
                      /\ requests[batch.requests[i]].status = "DECODING"
                      /\ batch.scheduled_tokens[i] = 1

C3_Witness ==
    /\ pc = "scheduled"
    /\ batch.is_prefill
    /\ Len(batch.requests) = 2
    /\ batch.total_scheduled_tokens = config.max_tokens_per_batch
    /\ batch.scheduled_tokens[2] < remaining_prompt(requests[batch.requests[2]])

SomeDecoding(reqs, running) ==
    \E i \in 1 .. Len(running) : reqs[running[i]].status = "DECODING"

\* C4: decode priority: a schedule() call made while a running request is DECODING
\* returns a non-empty decode batch and admits no pending request; hence no prefill
\* batch is ever returned while a running request is DECODING.
C4_DecodePriority ==
    [][/\ (pc = "loop" /\ SomeDecoding(requests, running_requests)) =>
            /\ pc' = "decode"
            /\ batch'.requests # <<>>
            /\ ~batch'.is_prefill
            /\ pending_queue' = pending_queue
            /\ admit_order' = admit_order
       /\ (pc = "loop" /\ pc' = "prefill") => ~SomeDecoding(requests, running_requests)
      ]_vars

\* a decode batch has just been returned while another request still waits in the queue
C4_Witness ==
    /\ pc = "decode" /\ bi = 1
    /\ pending_queue # <<>>
    /\ requests[Head(pending_queue)].status = "PENDING"

\* C5: FIFO prefill admission: the order of PENDING -> PREFILLING transitions is the
\* order of the add_request calls (the admissions are a prefix of the additions, and
\* the rest is the pending queue).
C5_FifoAdmission ==
    /\ IsPrefix(admit_order, add_order)
    /\ admit_order \o pending_queue = add_order

C5_Witness ==
    /\ Len(admit_order) >= 2
    /\ admit_order[1] > admit_order[2]
    /\ admit_order = add_order

\* C6: chunked prefill: a request whose prompt exceeds the token budget is prefilled
\* over successive batches until its chunks sum to the prompt length, then enters
\* DECODING; so when run_all returns no admitted request is left inside its prompt.
\* Fails on the code: schedule() takes prefill work from the pending queue only, and
\* a partly prefilled request has already left that queue.
C6_ChunkedPrefillCompletes ==
    pc = "done" =>
        \A r \in RequestIds :
            Admitted(r) => requests[r].prefill_cursor = num_prompt_tokens(requests[r])

\* C7: run to terminal state: with max_batch_size >= 1 and max_tokens_per_batch >= 1,
\* run_all returns only when every request handed to it is terminal.
\* Fails on the code for the reason of C6.
C7_RunToTerminal ==
    (pc = "done" /\ config.max_batch_size >= 1 /\ config.max_tokens_per_batch >= 1)
        => \A r \in RequestIds : is_finished(requests[r])

\* C8: OOM handling: a request whose forward step found no free block ends FAILED
\* with reason OOM, owns no block, has left the running set, and the run goes on.
\* Fails on the code: the exception thrown by forward_with_request is never caught.
C8_OomHandled ==
    oom_request # NoRequest =>
        /\ requests[oom_request].status = "FAILED"
        /\ requests[oom_request].finished_reason = "OOM"
        /\ requests[oom_request].id \notin DOMAIN block_manager.request_blocks
        /\ ~InRunning(oom_request)
        /\ pc # "oom"

\* C9: failure isolation: after a request's step failed for lack of blocks, the run
\* still ends with every other request naturally finished and the pool all free.
\* Fails on the code for the reason of C8.
C9_FailureIsolation ==
    (oom_request # NoRequest /\ RunEnded) =>
        /\ \A r \in RequestIds \ {oom_request} :
              /\ requests[r].status = "FINISHED"
              /\ requests[r].finished_reason \in {"Eos", "MaxTokens", "MaxSeqLen"}
        /\ block_manager.num_free_blocks = block_manager.num_blocks

TableLen(req, l) == IF req.block_tables = <<>> THEN 0 ELSE Len(req.block_tables[l])

Active(r) == requests[r].status \in {"PREFILLING", "DECODING"}

\* C10 as stated: for every active request and layer, between forward steps,
\* |block_tables[l]| = ceil((current_pos + 1) / B).
C10_Original ==
    pc # "oom" =>
        \A r \in RequestIds, l \in Layers :
            Active(r) => TableLen(requests[r], l) = CeilDiv(requests[r].current_pos + 1, BlockSize)

\* C10 amended: for every active request and layer, between forward steps,
\* |block_tables[l]| = ceil(current_pos / B): the block of position current_pos is
\* allocated by the step at that position, not before it.  A step that throws on an
\* exhausted pool leaves the layers it already visited one entry longer.
C10_BlockTableLength ==
    \A r \in RequestIds, l \in Layers :
        Active(r) =>
            IF pc = "oom" /\ r = oom_request
            THEN /\ TableLen(requests[r], l) - CeilDiv(requests[r].current_pos, BlockSize) \in {0, 1}
                 /\ requests[r].current_pos % BlockSize = 0
                 /\ \A k \in Layers : k < l => TableLen(requests[r], k) >= TableLen(requests[r], l)
                 /\ TableLen(requests[r], NLayers) = CeilDiv(requests[r].current_pos, BlockSize)
            ELSE TableLen(requests[r], l) = CeilDiv(requests[r].current_pos, BlockSize)

C10_Witness ==
    \E r \in RequestIds :
        /\ Active(r)
        /\ pc \in {"prefill", "decode", "loop"}
        /\ requests[r].current_pos > 0
        /\ requests[r].current_pos % BlockSize = 0
        /\ TableLen(requests[r], NLayers) = requests[r].current_pos \div BlockSize
        /\ TableLen(requests[r], NLayers) < CeilDiv(requests[r].current_pos + 1, BlockSize)

\* the request whose forward step the current action executes
Stepping(r) == pc \in {"prefill", "decode"} /\ bi <= Len(batch.requests) /\ r = CurReq

\* C11: block-boundary growth: a completed step of a request at position p appends
\* exactly one entry to every layer's block table when p mod B = 0 and none
\* otherwise; no table grows in any other action, and a table grows only in a step
\* of its own request at a position that is a multiple of B.
C11_BlockBoundaryGrowth ==
    [][\A r \in RequestIds, l \in Layers :
          LET d == TableLen(requests'[r], l) - TableLen(requests[r], l)
              p == requests[r].current_pos
          IN /\ d \in {0, 1}
             /\ requests'[r].current_pos = p + 1 =>
                    d = (IF p % BlockSize = 0 THEN 1 ELSE 0)
             /\ d = 1 => (Stepping(r) /\ p % BlockSize = 0)
      ]_vars

\* a request that has crossed the second block boundary and goes on
C11_Witness ==
    \E r \in RequestIds :
        /\ Active(r)
        /\ requests[r].current_pos = BlockSize + 1
        /\ \A l \in Layers : TableLen(requests[r], l) = 2

\* the physical block ids in a request's block table of layer l
TableRange(req, l) == IF req.block_tables = <<>> THEN {} ELSE Range(req.block_tables[l])

\* the physical block ids in a request's block tables, over all layers
TableBlocks(req) == UNION {TableRange(req, l) : l \in Layers}

\* the entries of the owner map that hold block b
OwnerEntries(bm, b) ==
    {e \in UNION {{<<id, k>> : k \in 1 .. Len(bm.request_blocks[id])} :
                      id \in DOMAIN bm.request_blocks} :
        bm.request_blocks[e[1]][e[2]] = b}

\* C12: single ownership of KV blocks: at every point of a run each allocated block
\* is in exactly one owner list, once; the blocks in an active request's tables are
\* blocks recorded for that request, each in one table entry only; so the tables of
\* two distinct active requests share no physical block.
C12_SingleOwnership ==
    /\ \A b \in DOMAIN block_manager.free_blocks :
          Cardinality(OwnerEntries(block_manager, b)) =
              (IF block_manager.free_blocks[b] THEN 0 ELSE 1)
    /\ \A r \in RequestIds :
          Active(r) =>
              /\ TableBlocks(requests[r]) =
                     Range(MapGet(block_manager.request_blocks, requests[r].id))
              /\ \A l1, l2 \in Layers :
                    l1 # l2 => TableRange(requests[r], l1)
                                  \cap TableRange(requests[r], l2) = {}
              /\ \A l \in Layers :
                    Cardinality(TableRange(requests[r], l)) = TableLen(requests[r], l)
    /\ \A r1, r2 \in RequestIds :
          (r1 # r2 /\ Active(r1) /\ Active(r2)) =>
              TableBlocks(requests[r1]) \cap TableBlocks(requests[r2]) = {}

\* two active requests hold blocks at the same time
C12_Witness ==
    \E r1, r2 \in RequestIds :
        /\ r1 # r2
        /\ Active(r1) /\ Active(r2)
        /\ TableBlocks(requests[r1]) # {}
        /\ TableBlocks(requests[r2]) # {}


Ended(st) == st.status \in {"done", "oom", "ub_crash"}

\* the rows the contiguous cache holds for positions 0 .. n-1 of layer l
StdRows(l, n) == [t1 \in 1 .. n |-> model["std"].cache[StdIndex(l, t1 - 1)]]

\* the history part of C13: what paged attention read in the last completed step
\* is what was written at positions 0 .. pos, as the contiguous cache holds it
PagedHistoryAgrees ==
    LET p == model["paged"]
    IN \A l \in Layers :
          /\ Len(p.written[l]) <= Len(model["std"].written[l])
          /\ p.written[l] = StdRows(l, Len(p.written[l]))
          /\ (p.status \in {"prefill", "decode", "done"} /\ Len(p.reads) = NLayers)
                => p.reads[l] = p.written[l]

\* C13 as stated: the histories agree at every step and the two generations
\* emit the same tokens
C13_Original ==
    /\ PagedHistoryAgrees
    /\ (Ended(model["paged"]) /\ Ended(model["std"]))
          => model["paged"].out = model["std"].out

\* what the two generations do share: for a prompt that fits max_seq_len, the
\* paged one emits the tokens of the contiguous one, all of them unless it
\* stopped for lack of blocks
C13_PagedContiguousEquivalence ==
    Len(model["paged"].tokens) <= MaxSeqLen
        => /\ PagedHistoryAgrees
           /\ IsPrefix(model["paged"].out, model["std"].out)
           /\ (Ended(model["paged"]) /\ Ended(model["std"])
                  /\ model["paged"].status # "oom")
                 => model["paged"].out = model["std"].out

C13_Witness ==
    /\ model["paged"].status = "done"
    /\ model["std"].status = "done"
    /\ model["paged"].pos > BlockSize
    /\ Len(model["paged"].out) >= 2
    /\ Len(model["paged"].reads) = NLayers
    /\ \A l \in Layers : Len(model["paged"].block_tables[l]) >= 2


\* the slot of position t of layer l in the tables of request req
SlotOf(req, l, t) ==
    PagedIndex(block_manager.num_blocks, l, req.block_tables[l][(t \div BlockSize) + 1],
               t % BlockSize)

\* C14: the step at position t writes the K/V of t before its attention reads
\* 0 .. t, so every attention reads, in every layer it reached, the rows its own
\* request wrote at 0 .. t; the rows of an active request stay in place for its
\* later attentions; and every position of a request is written once, in order.
C14_CausalWriteOnce ==
    /\ LET s == model.last
       IN \A l \in 1 .. s.layers :
             s.reads[l] = [t1 \in 1 .. (s.pos + 1) |-> RequestRow(s.request, t1 - 1)]
    /\ \A r \in RequestIds, l \in Layers :
          /\ \A k \in 1 .. Len(model.writes[r][l]) : model.writes[r][l][k] = k - 1
          /\ Len(model.writes[r][l]) >= requests[r].current_pos
          /\ Active(r) =>
                \A t \in 0 .. (requests[r].current_pos - 1) :
                   model.cache[SlotOf(requests[r], l, t)] = RequestRow(r, t)

C14_Witness ==
    /\ model.last.layers = NLayers
    /\ model.last.pos >= BlockSize
    /\ \E r \in RequestIds : r # model.last.request /\ Active(r)
                             /\ requests[r].current_pos >= 1
    /\ \E k \in DOMAIN model.cache :
          /\ model.cache[k] # NoRow
          /\ model.cache[k][1] \notin {r \in RequestIds : Active(r)}


WaitReturned(res) ==
    /\ threads[Consumer].pc = "idle"
    /\ threads[Consumer].op = "wait_for_requests"
    /\ threads[Consumer].result = res

\* C15 as stated: a wait returns false only if no submit_request and no
\* mark_all_submitted call happened before or during it
C15_Original ==
    WaitReturned("false") => (~threads[Consumer].before /\ ~threads[Consumer].during)

\* C15 (amended): wait_for_requests returns false only after its timeout, and
\* only if the queue was empty and all_submitted false when the wait began and
\* nothing was pushed or marked during it; a consumer blocked on the condition
\* variable while the predicate holds has a notification on its way (no lost
\* wake-up).
C15_IntakeLiveness ==
    /\ WaitReturned("false") =>
          /\ ~threads[Consumer].entry_pred
          /\ ~threads[Consumer].during
          /\ threads[Consumer].timed_out
    /\ (threads[Consumer].pc = "w_blocked" /\ Consumer \in queue.waiters
           /\ (queue.pending_requests # <<>> \/ queue.all_submitted))
          => threads[Producer].pc \in {"s_notify", "m_notify"}

C15_Witness ==
    /\ WaitReturned("true")
    /\ queue.pending_requests # <<>>
    /\ ~threads[Consumer].entry_pred
    /\ threads[Consumer].during
    /\ threads[Consumer].timed_out


\* C16: the requests handed out by get_pending, in the order handed out and
\* followed by those still queued, are the submitted requests in submission
\* order; no request is handed out twice; and get_pending returns with the
\* queue empty and its former content as the result.
C16_IntakeOrdering ==
    /\ queue.drained \o queue.pending_requests = queue.submitted
    /\ IsPrefix(queue.drained, queue.submitted)
    /\ \A j, k \in 1 .. Len(queue.drained) :
          queue.drained[j] = queue.drained[k] => j = k
    /\ threads[Consumer].pc = "g_return" =>
          /\ queue.pending_requests = <<>>
          /\ Suffix(queue.drained, Len(threads[Consumer].got)) = threads[Consumer].got

C16_Witness ==
    /\ threads[Consumer].pc = "idle"
    /\ threads[Consumer].op = "get_pending"
    /\ Len(threads[Consumer].got) = 1
    /\ Len(queue.drained) = 2
    /\ queue.drained = RequestVector


Terminal(r) == is_finished(requests[r])

\* C17: a request is admitted only after it was submitted; when the runner
\* exits, every submitted request is terminal and none is left in the intake.
C17_StaggeredArrival ==
    /\ \A k \in 1 .. Len(add_order) :
          \E j \in 1 .. Len(queue.submitted) : queue.submitted[j] = add_order[k]
    /\ \A k \in 1 .. Len(admit_order) :
          \E j \in 1 .. Len(queue.submitted) : queue.submitted[j] = admit_order[k]
    /\ pc = "done" =>
          /\ \A j \in 1 .. Len(queue.submitted) : Terminal(queue.submitted[j])
          /\ queue.pending_requests = <<>>

\* the runs of C17 in which the runner's last drain saw every request
C17_ExitAfterLastDrain ==
    (pc = "done" /\ queue.drained = RequestVector) =>
        \A r \in RequestIds : Terminal(r)


\* C18: every pool operation in progress holds the pool mutex; no block id is
\* held by two callers at once; and what a reader sees as the free count is the
\* number of free bits of the bitmap at that instant.
C18_PoolSerialization ==
    /\ \A t \in PoolThreads : threads[t].pc # "idle" => block_manager.mutex = t
    /\ \A t, u \in PoolThreads : t # u => threads[t].held \cap threads[u].held = {}
    /\ \A t \in PoolThreads : threads[t].seen_free = threads[t].seen_bits


FreeIds(bm) == {b \in DOMAIN bm.free_blocks : bm.free_blocks[b]}

\* the step is a call allocate_block_for_request(id)
IsAllocateBlockForRequest(id) ==
    LET r == allocate_block_for_request(block_manager, id)
    IN block_manager' = r.bm /\ ret' = RetInt(r.ret)

\* C19: allocate_block_for_request(id) with a free block returns the smallest
\* free index, marks it allocated, appends it to id's owner list and takes one
\* off the free count, leaving every other block and owner list alone; with no
\* free block it returns -1 and changes nothing.
C19_LowestIndexAllocation ==
    [][\A id \in RequestIds :
          IsAllocateBlockForRequest(id) =>
             LET F == FreeIds(block_manager)
             IN IF F # {}
                THEN /\ ret'.val \in F
                     /\ \A b \in F : ret'.val <= b
                     /\ FreeIds(block_manager') = F \ {ret'.val}
                     /\ block_manager'.num_free_blocks = block_manager.num_free_blocks - 1
                     /\ MapGet(block_manager'.request_blocks, id) =
                           Append(MapGet(block_manager.request_blocks, id), ret'.val)
                     /\ \A o \in RequestIds \ {id} :
                           MapGet(block_manager'.request_blocks, o) =
                              MapGet(block_manager.request_blocks, o)
                ELSE /\ ret'.val = 0 - 1
                     /\ block_manager' = block_manager
      ]_vars

C19_Witness ==
    /\ ret = RetInt(0)
    /\ \E id \in RequestIds : MapGet(block_manager.request_blocks, id) = <<1, 0>>
    /\ ~block_manager.free_blocks[1]

\* the step is a call allocate_for_request(id, n)
IsAllocateForRequest(id, n) ==
    LET r == allocate_for_request(block_manager, id, n)
    IN block_manager' = r.bm /\ ret' = RetBlocks(r.ret)

\* C20: allocate_for_request(id, n) either takes exactly ceil(n / B) free
\* blocks, all distinct, and appends them to id's owner list, the free count
\* dropping by as many, or returns no block and leaves the pool as it was.
C20_AtomicMultiBlock ==
    [][\A id \in RequestIds, n \in 0 .. MaxAllocTokens :
          IsAllocateForRequest(id, n) =>
             LET F == FreeIds(block_manager)
                 k == CeilDiv(n, BlockSize)
                 got == ret'.blocks
             IN \/ /\ Len(got) = k
                   /\ k <= Cardinality(F)
                   /\ Range(got) \subseteq F
                   /\ Cardinality(Range(got)) = k
                   /\ FreeIds(block_manager') = F \ Range(got)
                   /\ block_manager'.num_free_blocks = block_manager.num_free_blocks - k
                   /\ MapGet(block_manager'.request_blocks, id) =
                         MapGet(block_manager.request_blocks, id) \o got
                   /\ \A o \in RequestIds \ {id} :
                         MapGet(block_manager'.request_blocks, o) =
                            MapGet(block_manager.request_blocks, o)
                \/ /\ got = <<>>
                   /\ k > Cardinality(F)
                   /\ block_manager' = block_manager
      ]_vars

C20_Witness ==
    /\ ret.kind = "blocks"
    /\ Len(ret.blocks) = 2
    /\ block_manager.num_free_blocks = block_manager.num_blocks - 2
    /\ \E id \in RequestIds : MapGet(block_manager.request_blocks, id) = ret.blocks


\* the step is a call free_request(id)
IsFreeRequest(id) ==
    block_manager' = free_request(block_manager, id) /\ ret' = RetVoid

\* C21: free_request(id) frees every block recorded against id, raises the free
\* count by the number of those blocks and removes id from the owner map; the
\* blocks and owner lists of every other request stay as they were; for an id
\* without recorded blocks nothing changes, and a second call changes nothing.
C21_FreeRequestFrame ==
    [][\A id \in RequestIds :
          IsFreeRequest(id) =>
             LET owned == MapGet(block_manager.request_blocks, id)
             IN /\ FreeIds(block_manager') = FreeIds(block_manager) \cup Range(owned)
                /\ block_manager'.num_free_blocks =
                      block_manager.num_free_blocks + Len(owned)
                /\ id \notin DOMAIN block_manager'.request_blocks
                /\ \A o \in RequestIds \ {id} :
                      /\ MapGet(block_manager'.request_blocks, o) =
                            MapGet(block_manager.request_blocks, o)
                      /\ \A b \in Range(MapGet(block_manager.request_blocks, o)) :
                            block_manager'.free_blocks[b] = block_manager.free_blocks[b]
                /\ owned = <<>> => block_manager'.free_blocks = block_manager.free_blocks
                /\ free_request(block_manager', id) = block_manager'
      ]_vars


\* C22: free_block(b) and free_block_safe(b) report an error and leave the pool
\* unchanged when b is outside [0, N), and leave the pool unchanged when block b
\* is already free.
C22_SingleBlockFree ==
    \A b \in (0 - 1) .. block_manager.num_blocks :
        LET u == free_block(block_manager, b)
            s == free_block_safe_outcome(block_manager, b)
        IN IF b < 0 \/ b >= block_manager.num_blocks
           THEN /\ u.ret = "throw" /\ u.bm = block_manager
                /\ s.ret = "throw" /\ s.bm = block_manager
           ELSE block_manager.free_blocks[b] =>
                   /\ u.bm = block_manager /\ u.ret = "already_free"
                   /\ s.bm = block_manager

\* the part of C22 that free_block alone satisfies
C22_FreeBlockOnly ==
    \A b \in (0 - 1) .. block_manager.num_blocks :
        LET u == free_block(block_manager, b)
        IN IF b < 0 \/ b >= block_manager.num_blocks
           THEN u.ret = "throw" /\ u.bm = block_manager
           ELSE block_manager.free_blocks[b] =>
                   (u.bm = block_manager /\ u.ret = "already_free"
                    /\ free_block_safe(block_manager, b) = block_manager)


\* the blocks of q freed one at a time through free_block_safe, in the order p
RECURSIVE FreeOneByOne(_, _, _, _)
FreeOneByOne(bm, q, p, k) ==
    IF k > Len(q) THEN bm
    ELSE FreeOneByOne(free_block_safe(bm, q[p[k]]), q, p, k + 1)

Orders(n) == {p \in [1 .. n -> 1 .. n] : \A i, j \in 1 .. n : p[i] = p[j] => i = j}

\* C23: for every request r and every order of the blocks r owns, freeing them
\* one at a time gives the bitmap, free count and owner map of free_request(r).
C23_BulkFreeEquivalence ==
    \A r \in DOMAIN block_manager.request_blocks :
        LET q == block_manager.request_blocks[r]
        IN \A p \in Orders(Len(q)) :
              FreeOneByOne(block_manager, q, p, 1) = free_request(block_manager, r)

\* the part of C23 that holds: bitmap and free count agree
C23_BitmapAndCount ==
    \A r \in DOMAIN block_manager.request_blocks :
        LET q == block_manager.request_blocks[r]
            bulk == free_request(block_manager, r)
        IN \A p \in Orders(Len(q)) :
              LET one == FreeOneByOne(block_manager, q, p, 1)
              IN /\ one.free_blocks = bulk.free_blocks
                 /\ one.num_free_blocks = bulk.num_free_blocks
                 /\ one.request_blocks = block_manager.request_blocks


\* the step is the reset at the start of a run_all
IsReset == (pc = "start" /\ pc' = "loop") \/ (pc = "done" /\ pc' = "again")

AllTablesEmpty(r) == \A l \in DOMAIN r.block_tables : r.block_tables[l] = <<>>

\* C24: after the reset the pool has all N blocks free and an empty owner map,
\* the paged buffers are all zero and every request's block tables are empty,
\* whatever ran before.
C24_ResetClears ==
    [][IsReset =>
         /\ block_manager' = NewBlockManager(block_manager.num_blocks)
         /\ \A k \in DOMAIN model'.cache : model'.cache[k] = NoRow
         /\ \A r \in RequestIds : AllTablesEmpty(requests'[r])
      ]_vars

\* the part of C24 that holds: the pool is new after every reset
C24_PoolIsNew ==
    [][IsReset => block_manager' = NewBlockManager(block_manager.num_blocks)]_vars

\* the reset before the first run leaves everything clear
C24_FirstReset ==
    [][(pc = "start" /\ pc' = "loop") =>
         /\ \A k \in DOMAIN model'.cache : model'.cache[k] = NoRow
         /\ \A r \in RequestIds : AllTablesEmpty(requests'[r])
      ]_vars


\* the prompt of entry e is missing or empty
NoPrompt(e) == e.prompt = Absent \/ e.prompt = JsonString("")

\* C25: parse_benchmark_input numbers the requests 0, 1, 2, ... in array order,
\* gives a missing temperature, top_p, max_tokens the defaults 1.0, 0.9, 256, and
\* fails, returning no requests, if any entry has an empty or missing prompt.
C25_JsonIngestion ==
    /\ \A i \in 1 .. Len(requests) :
          /\ requests[i].id = i - 1
          /\ requests[i].prompt = batch[i].prompt.str
          /\ batch[i].temperature = Absent => requests[i].sampling_params.temperature = 10
          /\ batch[i].top_p = Absent => requests[i].sampling_params.top_p = 9
          /\ batch[i].max_tokens = Absent => requests[i].sampling_params.max_tokens = 256
    /\ pc = "returned" =>
          /\ ret = RetVector(requests)
          /\ Len(requests) = Len(batch)
          /\ \A i \in 1 .. Len(batch) : ~NoPrompt(batch[i])
    /\ (pc # "loop" /\ \E i \in 1 .. Len(batch) : NoPrompt(batch[i])) =>
          /\ pc = "thrown"
          /\ ret = RetStatus("throw")
          /\ ret.blocks = <<>>

\* two requests returned, the second with every optional field missing
C25_Witness ==
    /\ pc = "returned"
    /\ Len(ret.blocks) = 2
    /\ batch[2].temperature = Absent /\ batch[2].top_p = Absent
    /\ batch[2].max_tokens = Absent
    /\ ret.blocks[2].id = 1

\* a file whose second entry has no prompt has been rejected
C25_Rejected ==
    /\ pc = "thrown"
    /\ Len(batch) = 2
    /\ ~NoPrompt(batch[1]) /\ batch[2].prompt = Absent


\* C26: in every reachable state of a run every request has generated at most
\* sampling_params.max_tokens tokens, for every max_tokens >= 0.
C26_GenerationBound ==
    \A r \in RequestIds : num_generated_tokens(requests[r]) <= requests[r].max_tokens

\* the bound as the code keeps it: at most max(1, max_tokens) tokens
C26_AtLeastOneToken ==
    \A r \in RequestIds :
        num_generated_tokens(requests[r]) <= (IF requests[r].max_tokens < 1 THEN 1 ELSE requests[r].max_tokens)


\* C27: every active request has current_pos < max_seq_len in every reachable
\* state of a run, and no forward step runs at a position >= max_seq_len.
C27_SequenceLengthBound ==
    /\ \A r \in RequestIds : Active(r) => requests[r].current_pos < MaxSeqLen
    /\ pc # "ub_crash"


\* C28: for every request 0 <= prefill_cursor <= number of prompt tokens in every
\* reachable state, prefill_cursor never decreases, and is_prefill() holds exactly
\* when prefill_cursor < number of prompt tokens.
C28_PrefillCursor ==
    /\ [](\A r \in RequestIds :
            /\ 0 <= requests[r].prefill_cursor
            /\ requests[r].prefill_cursor <= num_prompt_tokens(requests[r])
            /\ is_prefill(requests[r]) <=>
                  requests[r].prefill_cursor < Len(requests[r].prompt_tokens))
    /\ [][\A r \in RequestIds :
            requests'[r].prefill_cursor >= requests[r].prefill_cursor]_vars

\* a chunk smaller than the prompt has been prefilled
C28_Witness ==
    \E r \in RequestIds :
        /\ 0 < requests[r].prefill_cursor
        /\ requests[r].prefill_cursor < num_prompt_tokens(requests[r])
        /\ requests[r].current_pos = requests[r].prefill_cursor


\* the status edges of the lifecycle
LifecycleEdges ==
    {<<"PENDING", "PREFILLING">>, <<"PREFILLING", "DECODING">>,
     <<"DECODING", "FINISHED">>, <<"PENDING", "FAILED">>,
     <<"PREFILLING", "FAILED">>, <<"DECODING", "FAILED">>}

\* the step is a forward step of request r that fails for lack of a block
FailsInStep(r) == pc \in {"prefill", "decode"} /\ pc' = "oom" /\ r = CurReq

\* the step sets a finish reason on request r
ReasonSetInStep(r) ==
    requests[r].finished_reason = "None" /\ requests'[r].finished_reason # "None"

\* the step completes the prefill of request r
PrefillCompletesInStep(r) ==
    /\ pc = "prefill" /\ r = CurReq
    /\ requests[r].prefill_cursor < num_prompt_tokens(requests[r])
    /\ requests'[r].prefill_cursor = num_prompt_tokens(requests[r])

\* C29: a status changes only along PENDING -> PREFILLING -> DECODING ->
\* FINISHED or FAILED; it becomes DECODING exactly in the prefill step in which
\* prefill_cursor reaches the prompt length, with last_token the last prompt
\* token; it becomes FINISHED or FAILED exactly when a termination condition
\* fires, FAILED on a failure.
C29_LifecycleOrder ==
    [][\A r \in RequestIds :
          LET s == requests[r].status
              t == requests'[r].status
          IN /\ s # t => <<s, t>> \in LifecycleEdges
             /\ (s # t /\ t = "DECODING") <=> PrefillCompletesInStep(r)
             /\ t = "DECODING" /\ s # t =>
                   requests'[r].last_token =
                      requests[r].prompt_tokens[Len(requests[r].prompt_tokens)]
             /\ (s # t /\ t \in {"FINISHED", "FAILED"}) <=>
                   (ReasonSetInStep(r) \/ FailsInStep(r))
             /\ FailsInStep(r) => t = "FAILED"
      ]_vars

\* the part of C29 that holds: the order, the move to DECODING, and FINISHED
\* exactly when a finish reason is set
C29_OrderAndFinish ==
    [][\A r \in RequestIds :
          LET s == requests[r].status
              t == requests'[r].status
          IN /\ s # t => <<s, t>> \in LifecycleEdges
             /\ (s # t /\ t = "DECODING") <=> PrefillCompletesInStep(r)
             /\ t = "DECODING" /\ s # t =>
                   requests'[r].last_token =
                      requests[r].prompt_tokens[Len(requests[r].prompt_tokens)]
             /\ (s # t /\ t = "FINISHED") <=> ReasonSetInStep(r)
             /\ t # "FAILED"
      ]_vars


\* the step admits request r to prefill
AdmittedInStep(r) ==
    requests[r].status = "PENDING" /\ requests'[r].status = "PREFILLING"

AnyDecoding(reqs) == \E q \in RequestIds : reqs[q].status = "DECODING"

\* C30 as stated, read at the schedule() call: a pending request joins without
\* waiting for the decoding requests to drain, so a call that finds a request
\* DECODING and returns a batch with a free slot and budget left for the head of
\* the pending queue admits that head.
C30_Original ==
    [][(/\ pc = "loop"
        /\ pending_queue # <<>>
        /\ SomeDecoding(requests, running_requests)
        /\ Len(batch'.requests) < config.max_batch_size
        /\ batch'.total_scheduled_tokens < config.max_tokens_per_batch
        /\ remaining_prompt(requests[Head(pending_queue)]) > 0)
       => AdmittedInStep(Head(pending_queue))
      ]_vars

\* C30 (amended): every schedule() call forms its batch anew from the requests
\* then running, and a finished request has left the running set; a pending
\* request is admitted only by a call that finds no request DECODING, so that
\* no request is ever admitted while an earlier one is still DECODING.
C30_AdmissionAfterDecodeDrain ==
    [][/\ \A r \in RequestIds :
             /\ AdmittedInStep(r) =>
                   /\ pc = "loop"
                   /\ ~AnyDecoding(requests)
                   /\ ~AnyDecoding(requests')
             /\ requests'[r].status = "FINISHED" => ~InRunning(r)'
       /\ (pc = "loop" /\ has_work) =>
             \A i \in 1 .. Len(batch'.requests) :
                 /\ \E j \in 1 .. Len(running_requests') : running_requests'[j] = batch'.requests[i]
                 /\ ~is_finished(requests'[batch'.requests[i]])
      ]_vars

\* a request has just been admitted after an earlier admitted request finished
C30_Witness ==
    /\ pc = "prefill" /\ bi = 1
    /\ \E r, q \in RequestIds :
          /\ requests[q].status = "FINISHED"
          /\ batch.requests = <<r>>
          /\ requests[r].status = "PREFILLING"
          /\ requests[r].current_pos = 0
          /\ admit_order = <<q, r>>


\* the step retires request r
FinishedInStep(r) ==
    requests[r].status # "FINISHED" /\ requests'[r].status = "FINISHED"

\* C31: the step that finishes r sets r's status and removes r from the running
\* set, leaving the pending queue, every other request and every other request's
\* blocks alone; a schedule() call never changes the pool; r's blocks are freed in
\* the finishing step, so a FINISHED request owns no pool block.
C31_SchedulerFrame ==
    /\ [](\A r \in RequestIds :
            requests[r].status = "FINISHED" =>
               /\ r \notin DOMAIN block_manager.request_blocks
               /\ ~InRunning(r))
    /\ [][/\ \A r \in RequestIds :
               FinishedInStep(r) =>
                  /\ pending_queue' = pending_queue
                  /\ running_requests' = RemoveAll(running_requests, r)
                  /\ \A o \in RequestIds \ {r} :
                        /\ requests'[o] = requests[o]
                        /\ MapGet(block_manager'.request_blocks, o) =
                              MapGet(block_manager.request_blocks, o)
                        /\ \A b \in Range(MapGet(block_manager.request_blocks, o)) :
                              ~block_manager'.free_blocks[b]
          /\ pc = "loop" => block_manager' = block_manager
         ]_vars

\* a request that ran has finished while the other still holds its blocks
C31_Witness ==
    \E r, o \in RequestIds :
        /\ requests[r].status = "FINISHED"
        /\ requests[r].block_tables # <<>>
        /\ requests[o].status = "DECODING"
        /\ MapGet(block_manager.request_blocks, o) # <<>>


NoRepeat(q) == \A i, j \in 1 .. Len(q) : q[i] = q[j] => i = j

\* C32: in every state of a run no request is twice in the batch, twice in the
\* running set, or in the pending queue and the running set at once, and a
\* request is in the running set exactly while it is PREFILLING or DECODING.
C32_NoDuplicates ==
    /\ NoRepeat(batch.requests)
    /\ NoRepeat(running_requests)
    /\ \A i \in 1 .. Len(pending_queue) : ~InRunning(pending_queue[i])
    /\ \A r \in RequestIds : InRunning(r) <=> Active(r)

\* two requests running, one of them in a decode batch, none pending
C32_Witness ==
    /\ Len(running_requests) = 2
    /\ pc = "decode"
    /\ Len(batch.requests) = 2
    /\ pending_queue = <<>>


\* C33: with max_batch_size >= 1 and max_tokens_per_batch >= 1, a schedule() call
\* made while a request is pending or running returns a non-empty batch, so
\* run_all does not leave its loop while has_work() holds.
C33_SchedulerProgress ==
    [][(/\ pc = "loop" /\ has_work
        /\ config.max_batch_size >= 1 /\ config.max_tokens_per_batch >= 1)
       => (batch'.requests # <<>> /\ pc' # "done")
      ]_vars

\* the part of C33 that holds: progress while a request is pending with prompt
\* left, or DECODING
C33_ProgressWhenSchedulable ==
    [][(/\ pc = "loop"
        /\ config.max_batch_size >= 1 /\ config.max_tokens_per_batch >= 1
        /\ \/ SomeDecoding(requests, running_requests)
           \/ (pending_queue # <<>> /\ remaining_prompt(requests[Head(pending_queue)]) > 0))
       => (batch'.requests # <<>> /\ pc' # "done")
      ]_vars


\* the sum of the lengths of a request's per-layer block tables
TableLenSum(req) == SumSeq([l \in Layers |-> TableLen(req, l)])

BlockCost(r) ==
    LET req == requests[r]
        n == CeilDiv(req.current_pos, BlockSize)
    IN /\ get_request_block_count(block_manager, req.id) = NLayers * n
       /\ \A l \in Layers : TableLen(req, l) = n
       /\ Cardinality(TableBlocks(req)) = NLayers * n
       /\ TableBlocks(req) = Range(MapGet(block_manager.request_blocks, req.id))

\* C34: an active request that has executed p forward steps owns exactly
\* n_layers * ceil(p / B) blocks, all distinct, ceil(p / B) in each layer's table,
\* and the pool's count for it is the sum of its table lengths.
C34_PerLayerBlockCost ==
    \A r \in RequestIds :
        Active(r) =>
           /\ BlockCost(r)
           /\ get_request_block_count(block_manager, requests[r].id) = TableLenSum(requests[r])

\* the part of C34 that holds: the cost in every state not left by a failed
\* step, and the count as the sum of the table lengths in every state
C34_CostBetweenSteps ==
    \A r \in RequestIds :
        Active(r) =>
           /\ pc # "oom" => BlockCost(r)
           /\ get_request_block_count(block_manager, requests[r].id) = TableLenSum(requests[r])


\* the step is a completed decode step of request r
DecodedInStep(r) ==
    Len(requests'[r].generated_tokens) = Len(requests[r].generated_tokens) + 1

\* C35: after a decode step the reason is Eos if the sampled token is EOS, else
\* MaxTokens if the request has its max_tokens, else MaxSeqLen if current_pos
\* reached max_seq_len, else none; a request has a finish reason exactly when it
\* is terminal, and a reason once set never changes.
C35_FinishReasonPriority ==
    /\ [](\A r \in RequestIds :
            requests[r].finished_reason # "None" <=> is_finished(requests[r]))
    /\ [][\A r \in RequestIds :
            /\ requests[r].finished_reason # "None" =>
                  requests'[r].finished_reason = requests[r].finished_reason
            /\ DecodedInStep(r) =>
                  LET q == requests'[r]
                      tok == q.generated_tokens[Len(q.generated_tokens)]
                  IN q.finished_reason =
                        IF tok = EOS THEN "Eos"
                        ELSE IF Len(q.generated_tokens) >= q.max_tokens THEN "MaxTokens"
                        ELSE IF q.current_pos >= MaxSeqLen THEN "MaxSeqLen"
                        ELSE "None"
         ]_vars

\* a request finished with Eos by its max_tokens-th token at max_seq_len
C35_Witness ==
    \E r \in RequestIds :
        /\ requests[r].finished_reason = "Eos"
        /\ requests[r].max_tokens >= 1
        /\ Len(requests[r].generated_tokens) = requests[r].max_tokens
        /\ requests[r].current_pos >= MaxSeqLen

\* a request finished with MaxTokens at max_seq_len
C35_MaxTokensOverSeqLen ==
    \E r \in RequestIds :
        /\ requests[r].finished_reason = "MaxTokens"
        /\ requests[r].current_pos >= MaxSeqLen


\* C36: free_request(id) never marks free a block that is allocated and recorded
\* in the owner list of a different request.
C36_OwnerListSafety ==
    [][\A id \in RequestIds :
          IsFreeRequest(id) =>
             \A o \in DOMAIN block_manager.request_blocks \ {id} :
                \A b \in Range(block_manager.request_blocks[o]) :
                   ~block_manager.free_blocks[b] => ~block_manager'.free_blocks[b]
      ]_vars


\* C37: the producer submits in vector order and marks completion only after the
\* last submit; once all_submitted is set (is_done() can return true) it stays
\* set and nothing more is submitted, and a get_pending call made then leaves
\* every request handed out.
C37_ProducerCompletionOrder ==
    /\ [](/\ IsPrefix(queue.submitted, RequestVector)
          /\ queue.all_submitted => queue.submitted = RequestVector
          /\ (threads[Consumer].op = "is_done" /\ threads[Consumer].result = "true")
                => queue.all_submitted
          /\ (threads[Consumer].pc = "g_return" /\ queue.all_submitted) =>
                /\ queue.drained = RequestVector
                /\ queue.pending_requests = <<>>)
    /\ [][queue.all_submitted =>
             /\ queue'.all_submitted
             /\ queue'.submitted = queue.submitted]_vars

\* after completion one get_pending call has returned both requests
C37_Witness ==
    /\ threads[Consumer].pc = "g_return"
    /\ queue.all_submitted
    /\ threads[Consumer].got = RequestVector


\* C38: in a prefill batch just returned by schedule() every member has at least
\* 1 and at most its remaining prompt tokens, the counts sum to
\* total_scheduled_tokens <= max_tokens_per_batch, and every member but the last
\* has its whole remaining prompt.
C38_PrefillBatchShape ==
    (pc = "scheduled" /\ batch.is_prefill) =>
        /\ batch.requests # <<>>
        /\ Len(batch.scheduled_tokens) = Len(batch.requests)
        /\ SumSeq(batch.scheduled_tokens) = batch.total_scheduled_tokens
        /\ batch.total_scheduled_tokens <= config.max_tokens_per_batch
        /\ \A i \in 1 .. Len(batch.requests) :
              /\ batch.scheduled_tokens[i] >= 1
              /\ batch.scheduled_tokens[i] <= remaining_prompt(requests[batch.requests[i]])
              /\ i < Len(batch.requests) =>
                    batch.scheduled_tokens[i] = remaining_prompt(requests[batch.requests[i]])

\* a prefill batch whose first member has its whole prompt and whose last has a part
C38_Witness ==
    /\ pc = "scheduled" /\ batch.is_prefill
    /\ Len(batch.requests) = 2
    /\ batch.scheduled_tokens[1] = remaining_prompt(requests[batch.requests[1]])
    /\ batch.scheduled_tokens[2] >= 1
    /\ batch.scheduled_tokens[2] < remaining_prompt(requests[batch.requests[2]])


\* the runner is about to execute a forward step of request r
StepEnabled(r) ==
    /\ Stepping(r)
    /\ pc = "prefill" =>
          /\ bt < batch.scheduled_tokens[bi]
          /\ requests[r].prefill_cursor + bt < num_prompt_tokens(requests[r])

\* C39: in every forward_with_request step of a run, at every layer the step
\* reaches, pos / B and the logical block of every history position 0 .. pos are
\* inside the request's block table, and every table entry is a block id in
\* [0, N) that is allocated and recorded for that request.
C39_BlockTableInBounds ==
    \A r \in RequestIds :
        StepEnabled(r) =>
           LET req == requests[r]
               pos == req.current_pos
               f == forward_with_request(block_manager, req, pos)
               reached == 1 .. (IF f.status = "oom" THEN f.layers ELSE NLayers)
           IN /\ f.layers = NLayers \/ f.status = "oom"
              /\ \A l \in reached :
                    /\ \A t \in 0 .. pos : (t \div BlockSize) + 1 \in DOMAIN f.block_tables[l]
                    /\ \A k \in DOMAIN f.block_tables[l] :
                          LET b == f.block_tables[l][k]
                          IN /\ b \in 0 .. (f.bm.num_blocks - 1)
                             /\ ~f.bm.free_blocks[b]
                             /\ b \in Range(MapGet(f.bm.request_blocks, req.id))

\* a step at the first position of a second block has been executed
C39_Witness ==
    \E r \in RequestIds :
        /\ model.last.request = r
        /\ model.last.pos = BlockSize
        /\ model.last.layers = NLayers
        /\ \A l \in Layers : TableLen(requests[r], l) = 2
        /\ requests[r].current_pos = BlockSize + 1


\* C40: after any sequence of pool operations num_free_blocks is the number of
\* blocks the bitmap marks free, and lies in [0, N].
C40_FreeCounterConsistency ==
    /\ block_manager.num_free_blocks = Cardinality(FreeIds(block_manager))
    /\ block_manager.num_free_blocks >= 0
    /\ block_manager.num_free_blocks <= block_manager.num_blocks

\* a free of an already free block has returned while another block is allocated
C40_Witness ==
    /\ ret = RetStatus("already_free")
    /\ block_manager.num_free_blocks < block_manager.num_blocks
    /\ block_manager.num_free_blocks > 0

\* a sequence call has failed on a pool that is partly allocated
C40_FailedCall ==
    /\ ret = RetStatus("throw")
    /\ block_manager.num_free_blocks < block_manager.num_blocks

=============================================================================
